---- MODULE Spec2Model ----
(***************************************************************************)
(* floem-tailwind: Tailwind-style utility methods on Floem's Style.        *)
(*                                                                         *)
(* The crate is a trait, TailwindExt, implemented for Style: every method  *)
(* takes the style by value, calls one setter of Style with a constant     *)
(* (size_* calls two) and returns the style, so that calls chain.  The     *)
(* model keeps one style value and the chain of calls made on it since     *)
(* Style::new().                                                           *)
(*                                                                         *)
(* Numbers.  Pixel values are whole numbers in the source and are kept as  *)
(* integers.  A percentage is kept in millionths of a percent, the         *)
(* precision the source literals are written to (Pct(33.333333) is         *)
(* 33333333).  A line height is kept in thousandths (1.375 is 1375).  An   *)
(* opacity is kept in hundredths (0.05 is 5).                              *)
(*                                                                         *)
(* A property of a style is a set: empty while the property is unset, and  *)
(* the singleton of its value once a setter has written it.                *)
(***************************************************************************)
EXTENDS Integers, Sequences, FiniteSets, TLC

\* The longest chain of calls the model follows.
MaxChain == 2

\* ------------------------------------------------------------------------
\* The constant tables (src/src/lib.rs:50-157)

\* mod spacing as it would be with SPACING_3 given the value of SPACING_3_5
spacing_3_slip ==
  [SPACING_0 |-> 0, SPACING_PX |-> 1, SPACING_0_5 |-> 2, SPACING_1 |-> 4, SPACING_1_5 |-> 6,
   SPACING_2 |-> 8, SPACING_2_5 |-> 10, SPACING_3 |-> 14, SPACING_3_5 |-> 14, SPACING_4 |-> 16,
   SPACING_5 |-> 20, SPACING_6 |-> 24, SPACING_7 |-> 28, SPACING_8 |-> 32, SPACING_9 |-> 36,
   SPACING_10 |-> 40, SPACING_11 |-> 44, SPACING_12 |-> 48, SPACING_14 |-> 56,
   SPACING_16 |-> 64, SPACING_20 |-> 80, SPACING_24 |-> 96, SPACING_28 |-> 112,
   SPACING_32 |-> 128, SPACING_36 |-> 144, SPACING_40 |-> 160, SPACING_44 |-> 176,
   SPACING_48 |-> 192, SPACING_52 |-> 208, SPACING_56 |-> 224, SPACING_60 |-> 240,
   SPACING_64 |-> 256, SPACING_72 |-> 288, SPACING_80 |-> 320, SPACING_96 |-> 384,
   SIZE_XS |-> 320, SIZE_SM |-> 384, SIZE_MD |-> 448, SIZE_LG |-> 512, SIZE_XL |-> 576,
   SIZE_2XL |-> 672, SIZE_3XL |-> 768, SIZE_4XL |-> 896, SIZE_5XL |-> 1024,
   SIZE_6XL |-> 1152, SIZE_7XL |-> 1280]

\* mod spacing as it would be with two digits of SIZE_MD swapped
spacing_md_slip ==
  [SPACING_0 |-> 0, SPACING_PX |-> 1, SPACING_0_5 |-> 2, SPACING_1 |-> 4, SPACING_1_5 |-> 6,
   SPACING_2 |-> 8, SPACING_2_5 |-> 10, SPACING_3 |-> 12, SPACING_3_5 |-> 14, SPACING_4 |-> 16,
   SPACING_5 |-> 20, SPACING_6 |-> 24, SPACING_7 |-> 28, SPACING_8 |-> 32, SPACING_9 |-> 36,
   SPACING_10 |-> 40, SPACING_11 |-> 44, SPACING_12 |-> 48, SPACING_14 |-> 56,
   SPACING_16 |-> 64, SPACING_20 |-> 80, SPACING_24 |-> 96, SPACING_28 |-> 112,
   SPACING_32 |-> 128, SPACING_36 |-> 144, SPACING_40 |-> 160, SPACING_44 |-> 176,
   SPACING_48 |-> 192, SPACING_52 |-> 208, SPACING_56 |-> 224, SPACING_60 |-> 240,
   SPACING_64 |-> 256, SPACING_72 |-> 288, SPACING_80 |-> 320, SPACING_96 |-> 384,
   SIZE_XS |-> 320, SIZE_SM |-> 384, SIZE_MD |-> 484, SIZE_LG |-> 512, SIZE_XL |-> 576,
   SIZE_2XL |-> 672, SIZE_3XL |-> 768, SIZE_4XL |-> 896, SIZE_5XL |-> 1024,
   SIZE_6XL |-> 1152, SIZE_7XL |-> 1280]

\* src/src/lib.rs:52-101, pub mod spacing
spacing ==
  [SPACING_0 |-> 0, SPACING_PX |-> 1, SPACING_0_5 |-> 2, SPACING_1 |-> 4, SPACING_1_5 |-> 6,
   SPACING_2 |-> 8, SPACING_2_5 |-> 10, SPACING_3 |-> 12, SPACING_3_5 |-> 14, SPACING_4 |-> 16,
   SPACING_5 |-> 20, SPACING_6 |-> 24, SPACING_7 |-> 28, SPACING_8 |-> 32, SPACING_9 |-> 36,
   SPACING_10 |-> 40, SPACING_11 |-> 44, SPACING_12 |-> 48, SPACING_14 |-> 56,
   SPACING_16 |-> 64, SPACING_20 |-> 80, SPACING_24 |-> 96, SPACING_28 |-> 112,
   SPACING_32 |-> 128, SPACING_36 |-> 144, SPACING_40 |-> 160, SPACING_44 |-> 176,
   SPACING_48 |-> 192, SPACING_52 |-> 208, SPACING_56 |-> 224, SPACING_60 |-> 240,
   SPACING_64 |-> 256, SPACING_72 |-> 288, SPACING_80 |-> 320, SPACING_96 |-> 384,
   SIZE_XS |-> 320, SIZE_SM |-> 384, SIZE_MD |-> 448, SIZE_LG |-> 512, SIZE_XL |-> 576,
   SIZE_2XL |-> 672, SIZE_3XL |-> 768, SIZE_4XL |-> 896, SIZE_5XL |-> 1024,
   SIZE_6XL |-> 1152, SIZE_7XL |-> 1280]

\* mod radius as it would be with a digit of ROUNDED_FULL missing
radius_full_slip ==
  [ROUNDED_NONE |-> 0, ROUNDED_SM |-> 2, ROUNDED |-> 4, ROUNDED_MD |-> 6, ROUNDED_LG |-> 8,
   ROUNDED_XL |-> 12, ROUNDED_2XL |-> 16, ROUNDED_3XL |-> 24, ROUNDED_FULL |-> 999]

\* src/src/lib.rs:104-114, pub mod radius
radius ==
  [ROUNDED_NONE |-> 0, ROUNDED_SM |-> 2, ROUNDED |-> 4, ROUNDED_MD |-> 6, ROUNDED_LG |-> 8,
   ROUNDED_XL |-> 12, ROUNDED_2XL |-> 16, ROUNDED_3XL |-> 24, ROUNDED_FULL |-> 9999]

\* mod font_size as it would be with TEXT_6XL given a value above TEXT_7XL
font_size_6xl_slip ==
  [TEXT_XS |-> 12, TEXT_SM |-> 14, TEXT_BASE |-> 16, TEXT_LG |-> 18, TEXT_XL |-> 20,
   TEXT_2XL |-> 24, TEXT_3XL |-> 30, TEXT_4XL |-> 36, TEXT_5XL |-> 48, TEXT_6XL |-> 80,
   TEXT_7XL |-> 72, TEXT_8XL |-> 96, TEXT_9XL |-> 128]

\* src/src/lib.rs:118-132, pub mod font_size
font_size ==
  [TEXT_XS |-> 12, TEXT_SM |-> 14, TEXT_BASE |-> 16, TEXT_LG |-> 18, TEXT_XL |-> 20,
   TEXT_2XL |-> 24, TEXT_3XL |-> 30, TEXT_4XL |-> 36, TEXT_5XL |-> 48, TEXT_6XL |-> 60,
   TEXT_7XL |-> 72, TEXT_8XL |-> 96, TEXT_9XL |-> 128]

\* mod font_weight as it would be with SEMIBOLD given the weight of MEDIUM
font_weight_semibold_slip ==
  [THIN |-> 100, EXTRALIGHT |-> 200, LIGHT |-> 300, NORMAL |-> 400, MEDIUM |-> 500,
   SEMIBOLD |-> 500, BOLD |-> 700, EXTRABOLD |-> 800, BLACK |-> 900]

\* src/src/lib.rs:135-147, pub mod font_weight (floem::text::Weight, by its number)
font_weight ==
  [THIN |-> 100, EXTRALIGHT |-> 200, LIGHT |-> 300, NORMAL |-> 400, MEDIUM |-> 500,
   SEMIBOLD |-> 600, BOLD |-> 700, EXTRABOLD |-> 800, BLACK |-> 900]

\* src/src/lib.rs:150-157, pub mod line_height, in thousandths
line_height ==
  [LEADING_NONE |-> 1000, LEADING_TIGHT |-> 1250, LEADING_SNUG |-> 1375,
   LEADING_NORMAL |-> 1500, LEADING_RELAXED |-> 1625, LEADING_LOOSE |-> 2000]

\* One hue of the palette: its eleven shades.  The palette module
\* (`pub mod colors;`, src/src/lib.rs:48) is not part of the sources at hand; an
\* entry is kept by its path, and no RGBA value is given to it.
Shades(hue) ==
  [C50 |-> hue \o "::C50", C100 |-> hue \o "::C100", C200 |-> hue \o "::C200",
   C300 |-> hue \o "::C300", C400 |-> hue \o "::C400", C500 |-> hue \o "::C500",
   C600 |-> hue \o "::C600", C700 |-> hue \o "::C700", C800 |-> hue \o "::C800",
   C900 |-> hue \o "::C900", C950 |-> hue \o "::C950"]

\* pub mod colors: the entries the methods of src/src/lib.rs:1852-2130 name
colors ==
  [TRANSPARENT |-> "TRANSPARENT", BLACK |-> "BLACK", WHITE |-> "WHITE",
   slate |-> Shades("slate"), gray |-> Shades("gray"), zinc |-> Shades("zinc"),
   red |-> Shades("red"), orange |-> Shades("orange"), yellow |-> Shades("yellow"),
   green |-> Shades("green"), blue |-> Shades("blue"), indigo |-> Shades("indigo"),
   purple |-> Shades("purple"), pink |-> Shades("pink")]

\* ------------------------------------------------------------------------
\* Units (floem::unit): what a length property holds

\* an f64 turned into a pixel length (impl From<f64> for PxPctAuto, PxPct, Px)
Px(n) == [unit |-> "Px", v |-> n]

\* floem::unit::Pct, in millionths of a percent
Pct(n) == [unit |-> "Pct", v |-> n]

\* PxPctAuto::Auto
Auto == [unit |-> "Auto", v |-> 0]

\* ------------------------------------------------------------------------
\* Box shadows (src/src/lib.rs:159-230)

\* `x as u8`: the fraction is dropped and the result saturates at 0 and 255
AsU8(num, den) ==
  LET q == num \div den
  IN  IF q < 0 THEN 0 ELSE IF q > 255 THEN 255 ELSE q

\* shadow_color as it would be with the product rounded to the nearest whole
\* number before the conversion
shadow_color_rounded(opacity) == <<0, 0, 0, AsU8(2 * opacity * 255 + 100, 200)>>

\* shadow::shadow_color, opacity in hundredths: (opacity * 255.0) as u8.  For the
\* opacities of the presets (0.05, 0.1, 0.25) the f32 product lies a quarter or
\* more away from a whole number, so the exact quotient truncates alike.
shadow_color(opacity) == <<0, 0, 0, AsU8(opacity * 255, 100)>>

\* BoxShadow::new() with its five setters called
BoxShadow(h, v, blur, spread_, color_) ==
  [h_offset |-> h, v_offset |-> v, blur_radius |-> blur, spread |-> spread_, color |-> color_]

shadow_sm == BoxShadow(0, 1, 2, 0, shadow_color(5))

shadow_default == BoxShadow(0, 1, 3, 0, shadow_color(10))

\* shadow::shadow_md as it would be with the sign of the spread lost
shadow_md_spread_slip == BoxShadow(0, 4, 6, 1, shadow_color(10))

shadow_md == BoxShadow(0, 4, 6, -1, shadow_color(10))

shadow_lg == BoxShadow(0, 10, 15, -3, shadow_color(10))

shadow_xl == BoxShadow(0, 20, 25, -5, shadow_color(10))

shadow_2xl == BoxShadow(0, 25, 50, -12, shadow_color(25))

\* ------------------------------------------------------------------------
\* The style value (floem::style::Style) and the setters the crate calls

\* the properties the crate's methods reach
Props ==
  {"width", "height", "min_width", "max_width",
   "padding_left", "padding_top", "padding_right", "padding_bottom",
   "margin_left", "margin_top", "margin_right", "margin_bottom",
   "gap", "border", "border_radius", "box_shadow",
   "background", "color", "border_color",
   "font_size", "font_weight", "line_height",
   "display", "flex_direction", "flex_wrap", "cursor"}

\* Style::new(): nothing is set
Style_new == [p \in Props |-> {}]

\* Style::width as it would be if setting the width reset the height
Style_width_resetting_height(self, value) ==
  [self EXCEPT !.width = {value}, !.height = {}]

Style_width(self, value) == [self EXCEPT !.width = {value}]

Style_height(self, value) == [self EXCEPT !.height = {value}]

Style_min_width(self, value) == [self EXCEPT !.min_width = {value}]

Style_max_width(self, value) == [self EXCEPT !.max_width = {value}]

Style_padding_left(self, value) == [self EXCEPT !.padding_left = {value}]

Style_padding_top(self, value) == [self EXCEPT !.padding_top = {value}]

Style_padding_right(self, value) == [self EXCEPT !.padding_right = {value}]

Style_padding_bottom(self, value) == [self EXCEPT !.padding_bottom = {value}]

\* Style::padding_horiz as it would be if a side already set were kept
Style_padding_horiz_keep(self, value) ==
  [self EXCEPT !.padding_left = IF @ = {} THEN {value} ELSE @,
               !.padding_right = IF @ = {} THEN {value} ELSE @]

\* Style::padding_horiz: the left and the right padding
Style_padding_horiz(self, value) ==
  Style_padding_right(Style_padding_left(self, value), value)

\* Style::padding_vert: the top and the bottom padding
Style_padding_vert(self, value) ==
  Style_padding_bottom(Style_padding_top(self, value), value)

\* Style::padding: all four sides
Style_padding(self, value) ==
  Style_padding_vert(Style_padding_horiz(self, value), value)

Style_margin_left(self, value) == [self EXCEPT !.margin_left = {value}]

Style_margin_top(self, value) == [self EXCEPT !.margin_top = {value}]

Style_margin_right(self, value) == [self EXCEPT !.margin_right = {value}]

Style_margin_bottom(self, value) == [self EXCEPT !.margin_bottom = {value}]

\* Style::margin_horiz: the left and the right margin
Style_margin_horiz(self, value) ==
  Style_margin_right(Style_margin_left(self, value), value)

\* Style::margin_vert: the top and the bottom margin
Style_margin_vert(self, value) ==
  Style_margin_bottom(Style_margin_top(self, value), value)

\* Style::margin as it would be if it wrote the left and right margins only
Style_margin_horiz_only(self, value) == Style_margin_horiz(self, value)

\* Style::margin: all four sides
Style_margin(self, value) ==
  Style_margin_vert(Style_margin_horiz(self, value), value)

\* Style::gap as it would be if it refused a length above 64 px
Style_gap_checked(self, value) ==
  IF value.v > 64 THEN [error |-> "gap out of range"] ELSE [self EXCEPT !.gap = {value}]

Style_gap(self, value) == [self EXCEPT !.gap = {value}]

\* Style::border: the border width, kept as the one value the crate ever writes
Style_border(self, value) == [self EXCEPT !.border = {value}]

\* Style::border_radius as it would be if it wrote the border width
Style_border_radius_as_border(self, value) == [self EXCEPT !.border = {value}]

Style_border_radius(self, value) == [self EXCEPT !.border_radius = {value}]

\* Style::apply_box_shadows as it would be if the list given were appended to
\* the one held
Style_apply_box_shadows_push(self, shadows) ==
  [self EXCEPT !.box_shadow = {l \o shadows : l \in IF @ = {} THEN {<<>>} ELSE @}]

\* Style::apply_box_shadows: the list given replaces the one held
Style_apply_box_shadows(self, shadows) == [self EXCEPT !.box_shadow = {shadows}]

\* Style::background as it would be if it wrote the text color
Style_background_as_color(self, value) == [self EXCEPT !.color = {value}]

Style_background(self, value) == [self EXCEPT !.background = {value}]

Style_color(self, value) == [self EXCEPT !.color = {value}]

Style_border_color(self, value) == [self EXCEPT !.border_color = {value}]

\* Style::font_size as it would be if setting the font size reset the text
\* color
Style_font_size_resetting_color(self, value) ==
  [self EXCEPT !.font_size = {value}, !.color = {}]

Style_font_size(self, value) == [self EXCEPT !.font_size = {value}]

Style_font_weight(self, value) == [self EXCEPT !.font_weight = {value}]

Style_line_height(self, value) == [self EXCEPT !.line_height = {value}]

Style_display(self, value) == [self EXCEPT !.display = {value}]

Style_flex_direction(self, value) == [self EXCEPT !.flex_direction = {value}]

Style_flex_wrap(self, value) == [self EXCEPT !.flex_wrap = {value}]

Style_cursor(self, value) == [self EXCEPT !.cursor = {value}]

\* ------------------------------------------------------------------------
\* impl TailwindExt for Style (src/src/lib.rs:1343-2131): per setter, the
\* methods that call it and the constant each passes

\* the fractional widths as they would be with every literal truncated
width_fractions_truncated ==
  [w_1_2 |-> Pct(50000000), w_1_3 |-> Pct(33333333), w_2_3 |-> Pct(66666666),
   w_1_4 |-> Pct(25000000), w_3_4 |-> Pct(75000000), w_1_5 |-> Pct(20000000),
   w_2_5 |-> Pct(40000000), w_3_5 |-> Pct(60000000), w_4_5 |-> Pct(80000000),
   w_1_6 |-> Pct(16666666), w_5_6 |-> Pct(83333333), w_1_12 |-> Pct(8333333)]

\* the fractional widths as they would be with one sixth written to two decimals
width_fractions_short ==
  [w_1_2 |-> Pct(50000000), w_1_3 |-> Pct(33333333), w_2_3 |-> Pct(66666667),
   w_1_4 |-> Pct(25000000), w_3_4 |-> Pct(75000000), w_1_5 |-> Pct(20000000),
   w_2_5 |-> Pct(40000000), w_3_5 |-> Pct(60000000), w_4_5 |-> Pct(80000000),
   w_1_6 |-> Pct(16670000), w_5_6 |-> Pct(83333333), w_1_12 |-> Pct(8333333)]

\* src/src/lib.rs:1400-1411: the fractional widths, percentages in millionths
width_fractions ==
  [w_1_2 |-> Pct(50000000), w_1_3 |-> Pct(33333333), w_2_3 |-> Pct(66666667),
   w_1_4 |-> Pct(25000000), w_3_4 |-> Pct(75000000), w_1_5 |-> Pct(20000000),
   w_2_5 |-> Pct(40000000), w_3_5 |-> Pct(60000000), w_4_5 |-> Pct(80000000),
   w_1_6 |-> Pct(16666667), w_5_6 |-> Pct(83333333), w_1_12 |-> Pct(8333333)]

\* src/src/lib.rs:1346-1411: the methods delegating to Style::width
width_methods ==
  [w_0 |-> Px(0), w_px |-> Px(1), w_0p5 |-> Px(spacing.SPACING_0_5),
   w_1 |-> Px(spacing.SPACING_1), w_1p5 |-> Px(spacing.SPACING_1_5),
   w_2 |-> Px(spacing.SPACING_2), w_2p5 |-> Px(spacing.SPACING_2_5),
   w_3 |-> Px(spacing.SPACING_3), w_3p5 |-> Px(spacing.SPACING_3_5),
   w_4 |-> Px(spacing.SPACING_4), w_5 |-> Px(spacing.SPACING_5), w_6 |-> Px(spacing.SPACING_6),
   w_7 |-> Px(spacing.SPACING_7), w_8 |-> Px(spacing.SPACING_8), w_9 |-> Px(spacing.SPACING_9),
   w_10 |-> Px(spacing.SPACING_10), w_11 |-> Px(spacing.SPACING_11),
   w_12 |-> Px(spacing.SPACING_12), w_14 |-> Px(spacing.SPACING_14),
   w_16 |-> Px(spacing.SPACING_16), w_20 |-> Px(spacing.SPACING_20),
   w_24 |-> Px(spacing.SPACING_24), w_28 |-> Px(spacing.SPACING_28),
   w_32 |-> Px(spacing.SPACING_32), w_36 |-> Px(spacing.SPACING_36),
   w_40 |-> Px(spacing.SPACING_40), w_44 |-> Px(spacing.SPACING_44),
   w_48 |-> Px(spacing.SPACING_48), w_52 |-> Px(spacing.SPACING_52),
   w_56 |-> Px(spacing.SPACING_56), w_60 |-> Px(spacing.SPACING_60),
   w_64 |-> Px(spacing.SPACING_64), w_72 |-> Px(spacing.SPACING_72),
   w_80 |-> Px(spacing.SPACING_80), w_96 |-> Px(spacing.SPACING_96),
   w_xs |-> Px(spacing.SIZE_XS), w_sm |-> Px(spacing.SIZE_SM), w_md |-> Px(spacing.SIZE_MD),
   w_lg |-> Px(spacing.SIZE_LG), w_xl |-> Px(spacing.SIZE_XL), w_2xl |-> Px(spacing.SIZE_2XL),
   w_3xl |-> Px(spacing.SIZE_3XL), w_4xl |-> Px(spacing.SIZE_4XL),
   w_5xl |-> Px(spacing.SIZE_5XL), w_6xl |-> Px(spacing.SIZE_6XL),
   w_7xl |-> Px(spacing.SIZE_7XL), w_full |-> Pct(100000000), w_auto |-> Auto]
  @@ width_fractions

\* src/src/lib.rs:1469-1480: the fractional heights, percentages in millionths
height_fractions ==
  [h_1_2 |-> Pct(50000000), h_1_3 |-> Pct(33333333), h_2_3 |-> Pct(66666667),
   h_1_4 |-> Pct(25000000), h_3_4 |-> Pct(75000000), h_1_5 |-> Pct(20000000),
   h_2_5 |-> Pct(40000000), h_3_5 |-> Pct(60000000), h_4_5 |-> Pct(80000000),
   h_1_6 |-> Pct(16666667), h_5_6 |-> Pct(83333333), h_1_12 |-> Pct(8333333)]

\* the h_* methods as they would be with h_72 passing the constant of h_64
height_methods_slip ==
  [h_0 |-> Px(0), h_px |-> Px(1), h_0p5 |-> Px(spacing.SPACING_0_5),
   h_1 |-> Px(spacing.SPACING_1), h_1p5 |-> Px(spacing.SPACING_1_5),
   h_2 |-> Px(spacing.SPACING_2), h_2p5 |-> Px(spacing.SPACING_2_5),
   h_3 |-> Px(spacing.SPACING_3), h_3p5 |-> Px(spacing.SPACING_3_5),
   h_4 |-> Px(spacing.SPACING_4), h_5 |-> Px(spacing.SPACING_5), h_6 |-> Px(spacing.SPACING_6),
   h_7 |-> Px(spacing.SPACING_7), h_8 |-> Px(spacing.SPACING_8), h_9 |-> Px(spacing.SPACING_9),
   h_10 |-> Px(spacing.SPACING_10), h_11 |-> Px(spacing.SPACING_11),
   h_12 |-> Px(spacing.SPACING_12), h_14 |-> Px(spacing.SPACING_14),
   h_16 |-> Px(spacing.SPACING_16), h_20 |-> Px(spacing.SPACING_20),
   h_24 |-> Px(spacing.SPACING_24), h_28 |-> Px(spacing.SPACING_28),
   h_32 |-> Px(spacing.SPACING_32), h_36 |-> Px(spacing.SPACING_36),
   h_40 |-> Px(spacing.SPACING_40), h_44 |-> Px(spacing.SPACING_44),
   h_48 |-> Px(spacing.SPACING_48), h_52 |-> Px(spacing.SPACING_52),
   h_56 |-> Px(spacing.SPACING_56), h_60 |-> Px(spacing.SPACING_60),
   h_64 |-> Px(spacing.SPACING_64), h_72 |-> Px(spacing.SPACING_64),
   h_80 |-> Px(spacing.SPACING_80), h_96 |-> Px(spacing.SPACING_96),
   h_xs |-> Px(spacing.SIZE_XS), h_sm |-> Px(spacing.SIZE_SM), h_md |-> Px(spacing.SIZE_MD),
   h_lg |-> Px(spacing.SIZE_LG), h_xl |-> Px(spacing.SIZE_XL), h_2xl |-> Px(spacing.SIZE_2XL),
   h_3xl |-> Px(spacing.SIZE_3XL), h_4xl |-> Px(spacing.SIZE_4XL),
   h_5xl |-> Px(spacing.SIZE_5XL), h_6xl |-> Px(spacing.SIZE_6XL),
   h_7xl |-> Px(spacing.SIZE_7XL), h_full |-> Pct(100000000), h_auto |-> Auto]
  @@ height_fractions

\* src/src/lib.rs:1415-1480: the methods delegating to Style::height
height_methods ==
  [h_0 |-> Px(0), h_px |-> Px(1), h_0p5 |-> Px(spacing.SPACING_0_5),
   h_1 |-> Px(spacing.SPACING_1), h_1p5 |-> Px(spacing.SPACING_1_5),
   h_2 |-> Px(spacing.SPACING_2), h_2p5 |-> Px(spacing.SPACING_2_5),
   h_3 |-> Px(spacing.SPACING_3), h_3p5 |-> Px(spacing.SPACING_3_5),
   h_4 |-> Px(spacing.SPACING_4), h_5 |-> Px(spacing.SPACING_5), h_6 |-> Px(spacing.SPACING_6),
   h_7 |-> Px(spacing.SPACING_7), h_8 |-> Px(spacing.SPACING_8), h_9 |-> Px(spacing.SPACING_9),
   h_10 |-> Px(spacing.SPACING_10), h_11 |-> Px(spacing.SPACING_11),
   h_12 |-> Px(spacing.SPACING_12), h_14 |-> Px(spacing.SPACING_14),
   h_16 |-> Px(spacing.SPACING_16), h_20 |-> Px(spacing.SPACING_20),
   h_24 |-> Px(spacing.SPACING_24), h_28 |-> Px(spacing.SPACING_28),
   h_32 |-> Px(spacing.SPACING_32), h_36 |-> Px(spacing.SPACING_36),
   h_40 |-> Px(spacing.SPACING_40), h_44 |-> Px(spacing.SPACING_44),
   h_48 |-> Px(spacing.SPACING_48), h_52 |-> Px(spacing.SPACING_52),
   h_56 |-> Px(spacing.SPACING_56), h_60 |-> Px(spacing.SPACING_60),
   h_64 |-> Px(spacing.SPACING_64), h_72 |-> Px(spacing.SPACING_72),
   h_80 |-> Px(spacing.SPACING_80), h_96 |-> Px(spacing.SPACING_96),
   h_xs |-> Px(spacing.SIZE_XS), h_sm |-> Px(spacing.SIZE_SM), h_md |-> Px(spacing.SIZE_MD),
   h_lg |-> Px(spacing.SIZE_LG), h_xl |-> Px(spacing.SIZE_XL), h_2xl |-> Px(spacing.SIZE_2XL),
   h_3xl |-> Px(spacing.SIZE_3XL), h_4xl |-> Px(spacing.SIZE_4XL),
   h_5xl |-> Px(spacing.SIZE_5XL), h_6xl |-> Px(spacing.SIZE_6XL),
   h_7xl |-> Px(spacing.SIZE_7XL), h_full |-> Pct(100000000), h_auto |-> Auto]
  @@ height_fractions

\* src/src/lib.rs:1484-1518: the methods delegating to Style::width + Style::height
size_methods ==
  [size_0 |-> Px(0), size_px |-> Px(1), size_0p5 |-> Px(spacing.SPACING_0_5),
   size_1 |-> Px(spacing.SPACING_1), size_1p5 |-> Px(spacing.SPACING_1_5),
   size_2 |-> Px(spacing.SPACING_2), size_2p5 |-> Px(spacing.SPACING_2_5),
   size_3 |-> Px(spacing.SPACING_3), size_3p5 |-> Px(spacing.SPACING_3_5),
   size_4 |-> Px(spacing.SPACING_4), size_5 |-> Px(spacing.SPACING_5),
   size_6 |-> Px(spacing.SPACING_6), size_7 |-> Px(spacing.SPACING_7),
   size_8 |-> Px(spacing.SPACING_8), size_9 |-> Px(spacing.SPACING_9),
   size_10 |-> Px(spacing.SPACING_10), size_11 |-> Px(spacing.SPACING_11),
   size_12 |-> Px(spacing.SPACING_12), size_14 |-> Px(spacing.SPACING_14),
   size_16 |-> Px(spacing.SPACING_16), size_20 |-> Px(spacing.SPACING_20),
   size_24 |-> Px(spacing.SPACING_24), size_28 |-> Px(spacing.SPACING_28),
   size_32 |-> Px(spacing.SPACING_32), size_36 |-> Px(spacing.SPACING_36),
   size_40 |-> Px(spacing.SPACING_40), size_44 |-> Px(spacing.SPACING_44),
   size_48 |-> Px(spacing.SPACING_48), size_52 |-> Px(spacing.SPACING_52),
   size_56 |-> Px(spacing.SPACING_56), size_60 |-> Px(spacing.SPACING_60),
   size_64 |-> Px(spacing.SPACING_64), size_72 |-> Px(spacing.SPACING_72),
   size_80 |-> Px(spacing.SPACING_80), size_96 |-> Px(spacing.SPACING_96)]

\* src/src/lib.rs:1523-1539: the methods delegating to Style::min_width
min_width_methods ==
  [min_w_0 |-> Px(0), min_w_px |-> Px(1), min_w_1 |-> Px(spacing.SPACING_1),
   min_w_2 |-> Px(spacing.SPACING_2), min_w_4 |-> Px(spacing.SPACING_4),
   min_w_8 |-> Px(spacing.SPACING_8), min_w_16 |-> Px(spacing.SPACING_16),
   min_w_32 |-> Px(spacing.SPACING_32), min_w_64 |-> Px(spacing.SPACING_64),
   min_w_96 |-> Px(spacing.SPACING_96), min_w_full |-> Pct(100000000),
   min_w_xs |-> Px(spacing.SIZE_XS), min_w_sm |-> Px(spacing.SIZE_SM),
   min_w_md |-> Px(spacing.SIZE_MD), min_w_lg |-> Px(spacing.SIZE_LG),
   min_w_xl |-> Px(spacing.SIZE_XL)]

\* src/src/lib.rs:1543-1565: the methods delegating to Style::max_width
max_width_methods ==
  [max_w_0 |-> Px(0), max_w_px |-> Px(1), max_w_1 |-> Px(spacing.SPACING_1),
   max_w_2 |-> Px(spacing.SPACING_2), max_w_4 |-> Px(spacing.SPACING_4),
   max_w_8 |-> Px(spacing.SPACING_8), max_w_16 |-> Px(spacing.SPACING_16),
   max_w_32 |-> Px(spacing.SPACING_32), max_w_64 |-> Px(spacing.SPACING_64),
   max_w_96 |-> Px(spacing.SPACING_96), max_w_full |-> Pct(100000000),
   max_w_xs |-> Px(spacing.SIZE_XS), max_w_sm |-> Px(spacing.SIZE_SM),
   max_w_md |-> Px(spacing.SIZE_MD), max_w_lg |-> Px(spacing.SIZE_LG),
   max_w_xl |-> Px(spacing.SIZE_XL), max_w_2xl |-> Px(spacing.SIZE_2XL),
   max_w_3xl |-> Px(spacing.SIZE_3XL), max_w_4xl |-> Px(spacing.SIZE_4XL),
   max_w_5xl |-> Px(spacing.SIZE_5XL), max_w_6xl |-> Px(spacing.SIZE_6XL),
   max_w_7xl |-> Px(spacing.SIZE_7XL)]

\* src/src/lib.rs:1569-1590: the methods delegating to Style::padding
padding_methods ==
  [p_0 |-> Px(0), p_px |-> Px(1), p_0p5 |-> Px(spacing.SPACING_0_5),
   p_1 |-> Px(spacing.SPACING_1), p_1p5 |-> Px(spacing.SPACING_1_5),
   p_2 |-> Px(spacing.SPACING_2), p_2p5 |-> Px(spacing.SPACING_2_5),
   p_3 |-> Px(spacing.SPACING_3), p_3p5 |-> Px(spacing.SPACING_3_5),
   p_4 |-> Px(spacing.SPACING_4), p_5 |-> Px(spacing.SPACING_5), p_6 |-> Px(spacing.SPACING_6),
   p_7 |-> Px(spacing.SPACING_7), p_8 |-> Px(spacing.SPACING_8), p_9 |-> Px(spacing.SPACING_9),
   p_10 |-> Px(spacing.SPACING_10), p_11 |-> Px(spacing.SPACING_11),
   p_12 |-> Px(spacing.SPACING_12), p_14 |-> Px(spacing.SPACING_14),
   p_16 |-> Px(spacing.SPACING_16), p_20 |-> Px(spacing.SPACING_20),
   p_24 |-> Px(spacing.SPACING_24)]

\* src/src/lib.rs:1595-1614: the methods delegating to Style::padding_horiz
padding_x_methods ==
  [px_0 |-> Px(0), px_px |-> Px(1), px_0p5 |-> Px(spacing.SPACING_0_5),
   px_1 |-> Px(spacing.SPACING_1), px_1p5 |-> Px(spacing.SPACING_1_5),
   px_2 |-> Px(spacing.SPACING_2), px_2p5 |-> Px(spacing.SPACING_2_5),
   px_3 |-> Px(spacing.SPACING_3), px_3p5 |-> Px(spacing.SPACING_3_5),
   px_4 |-> Px(spacing.SPACING_4), px_5 |-> Px(spacing.SPACING_5),
   px_6 |-> Px(spacing.SPACING_6), px_7 |-> Px(spacing.SPACING_7),
   px_8 |-> Px(spacing.SPACING_8), px_9 |-> Px(spacing.SPACING_9),
   px_10 |-> Px(spacing.SPACING_10), px_12 |-> Px(spacing.SPACING_12),
   px_16 |-> Px(spacing.SPACING_16), px_20 |-> Px(spacing.SPACING_20),
   px_24 |-> Px(spacing.SPACING_24)]

\* the py_* methods as they would be with py_6 passing the constant of py_5
padding_y_methods_slip ==
  [py_0 |-> Px(0), py_px |-> Px(1), py_0p5 |-> Px(spacing.SPACING_0_5),
   py_1 |-> Px(spacing.SPACING_1), py_1p5 |-> Px(spacing.SPACING_1_5),
   py_2 |-> Px(spacing.SPACING_2), py_2p5 |-> Px(spacing.SPACING_2_5),
   py_3 |-> Px(spacing.SPACING_3), py_3p5 |-> Px(spacing.SPACING_3_5),
   py_4 |-> Px(spacing.SPACING_4), py_5 |-> Px(spacing.SPACING_5),
   py_6 |-> Px(spacing.SPACING_5), py_7 |-> Px(spacing.SPACING_7),
   py_8 |-> Px(spacing.SPACING_8), py_9 |-> Px(spacing.SPACING_9),
   py_10 |-> Px(spacing.SPACING_10), py_12 |-> Px(spacing.SPACING_12),
   py_16 |-> Px(spacing.SPACING_16), py_20 |-> Px(spacing.SPACING_20),
   py_24 |-> Px(spacing.SPACING_24)]

\* src/src/lib.rs:1619-1638: the methods delegating to Style::padding_vert
padding_y_methods ==
  [py_0 |-> Px(0), py_px |-> Px(1), py_0p5 |-> Px(spacing.SPACING_0_5),
   py_1 |-> Px(spacing.SPACING_1), py_1p5 |-> Px(spacing.SPACING_1_5),
   py_2 |-> Px(spacing.SPACING_2), py_2p5 |-> Px(spacing.SPACING_2_5),
   py_3 |-> Px(spacing.SPACING_3), py_3p5 |-> Px(spacing.SPACING_3_5),
   py_4 |-> Px(spacing.SPACING_4), py_5 |-> Px(spacing.SPACING_5),
   py_6 |-> Px(spacing.SPACING_6), py_7 |-> Px(spacing.SPACING_7),
   py_8 |-> Px(spacing.SPACING_8), py_9 |-> Px(spacing.SPACING_9),
   py_10 |-> Px(spacing.SPACING_10), py_12 |-> Px(spacing.SPACING_12),
   py_16 |-> Px(spacing.SPACING_16), py_20 |-> Px(spacing.SPACING_20),
   py_24 |-> Px(spacing.SPACING_24)]

\* the pt_* methods as they would be with pt_5 passing the constant of pt_6
padding_top_methods_slip ==
  [pt_0 |-> Px(0), pt_1 |-> Px(spacing.SPACING_1), pt_2 |-> Px(spacing.SPACING_2),
   pt_3 |-> Px(spacing.SPACING_3), pt_4 |-> Px(spacing.SPACING_4),
   pt_5 |-> Px(spacing.SPACING_6), pt_6 |-> Px(spacing.SPACING_6),
   pt_8 |-> Px(spacing.SPACING_8)]

\* src/src/lib.rs:1642-1649: the methods delegating to Style::padding_top
padding_top_methods ==
  [pt_0 |-> Px(0), pt_1 |-> Px(spacing.SPACING_1), pt_2 |-> Px(spacing.SPACING_2),
   pt_3 |-> Px(spacing.SPACING_3), pt_4 |-> Px(spacing.SPACING_4),
   pt_5 |-> Px(spacing.SPACING_5), pt_6 |-> Px(spacing.SPACING_6),
   pt_8 |-> Px(spacing.SPACING_8)]

\* src/src/lib.rs:1651-1658: the methods delegating to Style::padding_bottom
padding_bottom_methods ==
  [pb_0 |-> Px(0), pb_1 |-> Px(spacing.SPACING_1), pb_2 |-> Px(spacing.SPACING_2),
   pb_3 |-> Px(spacing.SPACING_3), pb_4 |-> Px(spacing.SPACING_4),
   pb_5 |-> Px(spacing.SPACING_5), pb_6 |-> Px(spacing.SPACING_6),
   pb_8 |-> Px(spacing.SPACING_8)]

\* src/src/lib.rs:1660-1667: the methods delegating to Style::padding_left
padding_left_methods ==
  [pl_0 |-> Px(0), pl_1 |-> Px(spacing.SPACING_1), pl_2 |-> Px(spacing.SPACING_2),
   pl_3 |-> Px(spacing.SPACING_3), pl_4 |-> Px(spacing.SPACING_4),
   pl_5 |-> Px(spacing.SPACING_5), pl_6 |-> Px(spacing.SPACING_6),
   pl_8 |-> Px(spacing.SPACING_8)]

\* src/src/lib.rs:1669-1676: the methods delegating to Style::padding_right
padding_right_methods ==
  [pr_0 |-> Px(0), pr_1 |-> Px(spacing.SPACING_1), pr_2 |-> Px(spacing.SPACING_2),
   pr_3 |-> Px(spacing.SPACING_3), pr_4 |-> Px(spacing.SPACING_4),
   pr_5 |-> Px(spacing.SPACING_5), pr_6 |-> Px(spacing.SPACING_6),
   pr_8 |-> Px(spacing.SPACING_8)]

\* src/src/lib.rs:1680-1704: the methods delegating to Style::margin
margin_methods ==
  [m_0 |-> Px(0), m_px |-> Px(1), m_0p5 |-> Px(spacing.SPACING_0_5),
   m_1 |-> Px(spacing.SPACING_1), m_1p5 |-> Px(spacing.SPACING_1_5),
   m_2 |-> Px(spacing.SPACING_2), m_2p5 |-> Px(spacing.SPACING_2_5),
   m_3 |-> Px(spacing.SPACING_3), m_3p5 |-> Px(spacing.SPACING_3_5),
   m_4 |-> Px(spacing.SPACING_4), m_5 |-> Px(spacing.SPACING_5), m_6 |-> Px(spacing.SPACING_6),
   m_7 |-> Px(spacing.SPACING_7), m_8 |-> Px(spacing.SPACING_8), m_9 |-> Px(spacing.SPACING_9),
   m_10 |-> Px(spacing.SPACING_10), m_11 |-> Px(spacing.SPACING_11),
   m_12 |-> Px(spacing.SPACING_12), m_14 |-> Px(spacing.SPACING_14),
   m_16 |-> Px(spacing.SPACING_16), m_20 |-> Px(spacing.SPACING_20),
   m_24 |-> Px(spacing.SPACING_24), m_auto |-> Auto]

\* src/src/lib.rs:1708-1728: the methods delegating to Style::margin_horiz
margin_x_methods ==
  [mx_0 |-> Px(0), mx_px |-> Px(1), mx_0p5 |-> Px(spacing.SPACING_0_5),
   mx_1 |-> Px(spacing.SPACING_1), mx_1p5 |-> Px(spacing.SPACING_1_5),
   mx_2 |-> Px(spacing.SPACING_2), mx_2p5 |-> Px(spacing.SPACING_2_5),
   mx_3 |-> Px(spacing.SPACING_3), mx_3p5 |-> Px(spacing.SPACING_3_5),
   mx_4 |-> Px(spacing.SPACING_4), mx_5 |-> Px(spacing.SPACING_5),
   mx_6 |-> Px(spacing.SPACING_6), mx_8 |-> Px(spacing.SPACING_8),
   mx_10 |-> Px(spacing.SPACING_10), mx_12 |-> Px(spacing.SPACING_12),
   mx_16 |-> Px(spacing.SPACING_16), mx_20 |-> Px(spacing.SPACING_20),
   mx_24 |-> Px(spacing.SPACING_24), mx_auto |-> Auto]

\* src/src/lib.rs:1732-1752: the methods delegating to Style::margin_vert
margin_y_methods ==
  [my_0 |-> Px(0), my_px |-> Px(1), my_0p5 |-> Px(spacing.SPACING_0_5),
   my_1 |-> Px(spacing.SPACING_1), my_1p5 |-> Px(spacing.SPACING_1_5),
   my_2 |-> Px(spacing.SPACING_2), my_2p5 |-> Px(spacing.SPACING_2_5),
   my_3 |-> Px(spacing.SPACING_3), my_3p5 |-> Px(spacing.SPACING_3_5),
   my_4 |-> Px(spacing.SPACING_4), my_5 |-> Px(spacing.SPACING_5),
   my_6 |-> Px(spacing.SPACING_6), my_8 |-> Px(spacing.SPACING_8),
   my_10 |-> Px(spacing.SPACING_10), my_12 |-> Px(spacing.SPACING_12),
   my_16 |-> Px(spacing.SPACING_16), my_20 |-> Px(spacing.SPACING_20),
   my_24 |-> Px(spacing.SPACING_24), my_auto |-> Auto]

\* the methods of the top margin as they would be with mt_auto passing 0 px
margin_top_methods_auto_slip ==
  [mt_0 |-> Px(0), mt_1 |-> Px(spacing.SPACING_1), mt_2 |-> Px(spacing.SPACING_2),
   mt_3 |-> Px(spacing.SPACING_3), mt_4 |-> Px(spacing.SPACING_4),
   mt_5 |-> Px(spacing.SPACING_5), mt_6 |-> Px(spacing.SPACING_6),
   mt_8 |-> Px(spacing.SPACING_8), mt_auto |-> Px(0)]

\* src/src/lib.rs:1755-1763: the methods delegating to Style::margin_top
margin_top_methods ==
  [mt_0 |-> Px(0), mt_1 |-> Px(spacing.SPACING_1), mt_2 |-> Px(spacing.SPACING_2),
   mt_3 |-> Px(spacing.SPACING_3), mt_4 |-> Px(spacing.SPACING_4),
   mt_5 |-> Px(spacing.SPACING_5), mt_6 |-> Px(spacing.SPACING_6),
   mt_8 |-> Px(spacing.SPACING_8), mt_auto |-> Auto]

\* src/src/lib.rs:1765-1773: the methods delegating to Style::margin_bottom
margin_bottom_methods ==
  [mb_0 |-> Px(0), mb_1 |-> Px(spacing.SPACING_1), mb_2 |-> Px(spacing.SPACING_2),
   mb_3 |-> Px(spacing.SPACING_3), mb_4 |-> Px(spacing.SPACING_4),
   mb_5 |-> Px(spacing.SPACING_5), mb_6 |-> Px(spacing.SPACING_6),
   mb_8 |-> Px(spacing.SPACING_8), mb_auto |-> Auto]

\* src/src/lib.rs:1775-1783: the methods delegating to Style::margin_left
margin_left_methods ==
  [ml_0 |-> Px(0), ml_1 |-> Px(spacing.SPACING_1), ml_2 |-> Px(spacing.SPACING_2),
   ml_3 |-> Px(spacing.SPACING_3), ml_4 |-> Px(spacing.SPACING_4),
   ml_5 |-> Px(spacing.SPACING_5), ml_6 |-> Px(spacing.SPACING_6),
   ml_8 |-> Px(spacing.SPACING_8), ml_auto |-> Auto]

\* src/src/lib.rs:1785-1793: the methods delegating to Style::margin_right
margin_right_methods ==
  [mr_0 |-> Px(0), mr_1 |-> Px(spacing.SPACING_1), mr_2 |-> Px(spacing.SPACING_2),
   mr_3 |-> Px(spacing.SPACING_3), mr_4 |-> Px(spacing.SPACING_4),
   mr_5 |-> Px(spacing.SPACING_5), mr_6 |-> Px(spacing.SPACING_6),
   mr_8 |-> Px(spacing.SPACING_8), mr_auto |-> Auto]

\* src/src/lib.rs:1797-1818: the methods delegating to Style::gap
gap_methods ==
  [gap_0 |-> Px(0), gap_px |-> Px(1), gap_0p5 |-> Px(spacing.SPACING_0_5),
   gap_1 |-> Px(spacing.SPACING_1), gap_1p5 |-> Px(spacing.SPACING_1_5),
   gap_2 |-> Px(spacing.SPACING_2), gap_2p5 |-> Px(spacing.SPACING_2_5),
   gap_3 |-> Px(spacing.SPACING_3), gap_3p5 |-> Px(spacing.SPACING_3_5),
   gap_4 |-> Px(spacing.SPACING_4), gap_5 |-> Px(spacing.SPACING_5),
   gap_6 |-> Px(spacing.SPACING_6), gap_7 |-> Px(spacing.SPACING_7),
   gap_8 |-> Px(spacing.SPACING_8), gap_9 |-> Px(spacing.SPACING_9),
   gap_10 |-> Px(spacing.SPACING_10), gap_11 |-> Px(spacing.SPACING_11),
   gap_12 |-> Px(spacing.SPACING_12), gap_14 |-> Px(spacing.SPACING_14),
   gap_16 |-> Px(spacing.SPACING_16), gap_20 |-> Px(spacing.SPACING_20),
   gap_24 |-> Px(spacing.SPACING_24)]

\* src/src/lib.rs:1823-1831: the methods delegating to Style::border_radius
rounded_methods ==
  [rounded_none |-> Px(radius.ROUNDED_NONE), rounded_sm |-> Px(radius.ROUNDED_SM),
   rounded |-> Px(radius.ROUNDED), rounded_md |-> Px(radius.ROUNDED_MD),
   rounded_lg |-> Px(radius.ROUNDED_LG), rounded_xl |-> Px(radius.ROUNDED_XL),
   rounded_2xl |-> Px(radius.ROUNDED_2XL), rounded_3xl |-> Px(radius.ROUNDED_3XL),
   rounded_full |-> Px(radius.ROUNDED_FULL)]

\* the border-width methods as they would be with border_4 taking step 4 of
\* the spacing scale
border_methods_spaced ==
  [border_0 |-> Px(0), border_1 |-> Px(1), border_2 |-> Px(2),
   border_4 |-> Px(spacing.SPACING_4), border_8 |-> Px(8)]

\* src/src/lib.rs:1835-1839: the methods delegating to Style::border
border_methods ==
  [border_0 |-> Px(0), border_1 |-> Px(1), border_2 |-> Px(2), border_4 |-> Px(4),
   border_8 |-> Px(8)]

\* the shadow methods as they would be with `shadow` installing the two layers
\* of the Tailwind shadow (0 1px 3px 0 and 0 1px 2px -1px, both of opacity 0.1)
shadow_methods_layered ==
  [shadow_sm |-> <<shadow_sm>>,
   shadow |-> <<shadow_default, BoxShadow(0, 1, 2, -1, shadow_color(10))>>,
   shadow_md |-> <<shadow_md>>, shadow_lg |-> <<shadow_lg>>, shadow_xl |-> <<shadow_xl>>,
   shadow_2xl |-> <<shadow_2xl>>, shadow_none |-> <<>>]

\* src/src/lib.rs:1842-1848: the methods delegating to Style::apply_box_shadows
shadow_methods ==
  [shadow_sm |-> <<shadow_sm>>, shadow |-> <<shadow_default>>, shadow_md |-> <<shadow_md>>,
   shadow_lg |-> <<shadow_lg>>, shadow_xl |-> <<shadow_xl>>, shadow_2xl |-> <<shadow_2xl>>,
   shadow_none |-> <<>>]

\* src/src/lib.rs:1852-1986: the methods delegating to Style::background
bg_methods ==
  [bg_transparent |-> colors.TRANSPARENT, bg_black |-> colors.BLACK, bg_white |-> colors.WHITE,
   bg_slate_50 |-> colors.slate.C50, bg_slate_100 |-> colors.slate.C100,
   bg_slate_200 |-> colors.slate.C200, bg_slate_300 |-> colors.slate.C300,
   bg_slate_400 |-> colors.slate.C400, bg_slate_500 |-> colors.slate.C500,
   bg_slate_600 |-> colors.slate.C600, bg_slate_700 |-> colors.slate.C700,
   bg_slate_800 |-> colors.slate.C800, bg_slate_900 |-> colors.slate.C900,
   bg_slate_950 |-> colors.slate.C950, bg_gray_50 |-> colors.gray.C50,
   bg_gray_100 |-> colors.gray.C100, bg_gray_200 |-> colors.gray.C200,
   bg_gray_300 |-> colors.gray.C300, bg_gray_400 |-> colors.gray.C400,
   bg_gray_500 |-> colors.gray.C500, bg_gray_600 |-> colors.gray.C600,
   bg_gray_700 |-> colors.gray.C700, bg_gray_800 |-> colors.gray.C800,
   bg_gray_900 |-> colors.gray.C900, bg_gray_950 |-> colors.gray.C950,
   bg_zinc_50 |-> colors.zinc.C50, bg_zinc_100 |-> colors.zinc.C100,
   bg_zinc_200 |-> colors.zinc.C200, bg_zinc_300 |-> colors.zinc.C300,
   bg_zinc_400 |-> colors.zinc.C400, bg_zinc_500 |-> colors.zinc.C500,
   bg_zinc_600 |-> colors.zinc.C600, bg_zinc_700 |-> colors.zinc.C700,
   bg_zinc_800 |-> colors.zinc.C800, bg_zinc_900 |-> colors.zinc.C900,
   bg_zinc_950 |-> colors.zinc.C950, bg_red_50 |-> colors.red.C50,
   bg_red_100 |-> colors.red.C100, bg_red_200 |-> colors.red.C200,
   bg_red_300 |-> colors.red.C300, bg_red_400 |-> colors.red.C400,
   bg_red_500 |-> colors.red.C500, bg_red_600 |-> colors.red.C600,
   bg_red_700 |-> colors.red.C700, bg_red_800 |-> colors.red.C800,
   bg_red_900 |-> colors.red.C900, bg_red_950 |-> colors.red.C950,
   bg_orange_50 |-> colors.orange.C50, bg_orange_100 |-> colors.orange.C100,
   bg_orange_200 |-> colors.orange.C200, bg_orange_300 |-> colors.orange.C300,
   bg_orange_400 |-> colors.orange.C400, bg_orange_500 |-> colors.orange.C500,
   bg_orange_600 |-> colors.orange.C600, bg_orange_700 |-> colors.orange.C700,
   bg_orange_800 |-> colors.orange.C800, bg_orange_900 |-> colors.orange.C900,
   bg_orange_950 |-> colors.orange.C950, bg_yellow_50 |-> colors.yellow.C50,
   bg_yellow_100 |-> colors.yellow.C100, bg_yellow_200 |-> colors.yellow.C200,
   bg_yellow_300 |-> colors.yellow.C300, bg_yellow_400 |-> colors.yellow.C400,
   bg_yellow_500 |-> colors.yellow.C500, bg_yellow_600 |-> colors.yellow.C600,
   bg_yellow_700 |-> colors.yellow.C700, bg_yellow_800 |-> colors.yellow.C800,
   bg_yellow_900 |-> colors.yellow.C900, bg_yellow_950 |-> colors.yellow.C950,
   bg_green_50 |-> colors.green.C50, bg_green_100 |-> colors.green.C100,
   bg_green_200 |-> colors.green.C200, bg_green_300 |-> colors.green.C300,
   bg_green_400 |-> colors.green.C400, bg_green_500 |-> colors.green.C500,
   bg_green_600 |-> colors.green.C600, bg_green_700 |-> colors.green.C700,
   bg_green_800 |-> colors.green.C800, bg_green_900 |-> colors.green.C900,
   bg_green_950 |-> colors.green.C950, bg_blue_50 |-> colors.blue.C50,
   bg_blue_100 |-> colors.blue.C100, bg_blue_200 |-> colors.blue.C200,
   bg_blue_300 |-> colors.blue.C300, bg_blue_400 |-> colors.blue.C400,
   bg_blue_500 |-> colors.blue.C500, bg_blue_600 |-> colors.blue.C600,
   bg_blue_700 |-> colors.blue.C700, bg_blue_800 |-> colors.blue.C800,
   bg_blue_900 |-> colors.blue.C900, bg_blue_950 |-> colors.blue.C950,
   bg_indigo_50 |-> colors.indigo.C50, bg_indigo_100 |-> colors.indigo.C100,
   bg_indigo_200 |-> colors.indigo.C200, bg_indigo_300 |-> colors.indigo.C300,
   bg_indigo_400 |-> colors.indigo.C400, bg_indigo_500 |-> colors.indigo.C500,
   bg_indigo_600 |-> colors.indigo.C600, bg_indigo_700 |-> colors.indigo.C700,
   bg_indigo_800 |-> colors.indigo.C800, bg_indigo_900 |-> colors.indigo.C900,
   bg_indigo_950 |-> colors.indigo.C950, bg_purple_50 |-> colors.purple.C50,
   bg_purple_100 |-> colors.purple.C100, bg_purple_200 |-> colors.purple.C200,
   bg_purple_300 |-> colors.purple.C300, bg_purple_400 |-> colors.purple.C400,
   bg_purple_500 |-> colors.purple.C500, bg_purple_600 |-> colors.purple.C600,
   bg_purple_700 |-> colors.purple.C700, bg_purple_800 |-> colors.purple.C800,
   bg_purple_900 |-> colors.purple.C900, bg_purple_950 |-> colors.purple.C950,
   bg_pink_50 |-> colors.pink.C50, bg_pink_100 |-> colors.pink.C100,
   bg_pink_200 |-> colors.pink.C200, bg_pink_300 |-> colors.pink.C300,
   bg_pink_400 |-> colors.pink.C400, bg_pink_500 |-> colors.pink.C500,
   bg_pink_600 |-> colors.pink.C600, bg_pink_700 |-> colors.pink.C700,
   bg_pink_800 |-> colors.pink.C800, bg_pink_900 |-> colors.pink.C900,
   bg_pink_950 |-> colors.pink.C950]

\* src/src/lib.rs:1990-2052: the methods delegating to Style::color
text_methods ==
  [text_transparent |-> colors.TRANSPARENT, text_black |-> colors.BLACK,
   text_white |-> colors.WHITE, text_slate_50 |-> colors.slate.C50,
   text_slate_100 |-> colors.slate.C100, text_slate_200 |-> colors.slate.C200,
   text_slate_300 |-> colors.slate.C300, text_slate_400 |-> colors.slate.C400,
   text_slate_500 |-> colors.slate.C500, text_slate_600 |-> colors.slate.C600,
   text_slate_700 |-> colors.slate.C700, text_slate_800 |-> colors.slate.C800,
   text_slate_900 |-> colors.slate.C900, text_slate_950 |-> colors.slate.C950,
   text_gray_50 |-> colors.gray.C50, text_gray_100 |-> colors.gray.C100,
   text_gray_200 |-> colors.gray.C200, text_gray_300 |-> colors.gray.C300,
   text_gray_400 |-> colors.gray.C400, text_gray_500 |-> colors.gray.C500,
   text_gray_600 |-> colors.gray.C600, text_gray_700 |-> colors.gray.C700,
   text_gray_800 |-> colors.gray.C800, text_gray_900 |-> colors.gray.C900,
   text_gray_950 |-> colors.gray.C950, text_red_50 |-> colors.red.C50,
   text_red_100 |-> colors.red.C100, text_red_200 |-> colors.red.C200,
   text_red_300 |-> colors.red.C300, text_red_400 |-> colors.red.C400,
   text_red_500 |-> colors.red.C500, text_red_600 |-> colors.red.C600,
   text_red_700 |-> colors.red.C700, text_red_800 |-> colors.red.C800,
   text_red_900 |-> colors.red.C900, text_red_950 |-> colors.red.C950,
   text_green_50 |-> colors.green.C50, text_green_100 |-> colors.green.C100,
   text_green_200 |-> colors.green.C200, text_green_300 |-> colors.green.C300,
   text_green_400 |-> colors.green.C400, text_green_500 |-> colors.green.C500,
   text_green_600 |-> colors.green.C600, text_green_700 |-> colors.green.C700,
   text_green_800 |-> colors.green.C800, text_green_900 |-> colors.green.C900,
   text_green_950 |-> colors.green.C950, text_blue_50 |-> colors.blue.C50,
   text_blue_100 |-> colors.blue.C100, text_blue_200 |-> colors.blue.C200,
   text_blue_300 |-> colors.blue.C300, text_blue_400 |-> colors.blue.C400,
   text_blue_500 |-> colors.blue.C500, text_blue_600 |-> colors.blue.C600,
   text_blue_700 |-> colors.blue.C700, text_blue_800 |-> colors.blue.C800,
   text_blue_900 |-> colors.blue.C900, text_blue_950 |-> colors.blue.C950]

\* the font-size methods as they would be with text_lg given the constant of
\* text_xl
font_size_methods_slip ==
  [text_xs |-> font_size.TEXT_XS, text_sm |-> font_size.TEXT_SM,
   text_base |-> font_size.TEXT_BASE, text_lg |-> font_size.TEXT_XL,
   text_xl |-> font_size.TEXT_XL, text_2xl |-> font_size.TEXT_2XL,
   text_3xl |-> font_size.TEXT_3XL, text_4xl |-> font_size.TEXT_4XL,
   text_5xl |-> font_size.TEXT_5XL, text_6xl |-> font_size.TEXT_6XL,
   text_7xl |-> font_size.TEXT_7XL, text_8xl |-> font_size.TEXT_8XL,
   text_9xl |-> font_size.TEXT_9XL]

\* src/src/lib.rs:2056-2068: the methods delegating to Style::font_size
font_size_methods ==
  [text_xs |-> font_size.TEXT_XS, text_sm |-> font_size.TEXT_SM,
   text_base |-> font_size.TEXT_BASE, text_lg |-> font_size.TEXT_LG,
   text_xl |-> font_size.TEXT_XL, text_2xl |-> font_size.TEXT_2XL,
   text_3xl |-> font_size.TEXT_3XL, text_4xl |-> font_size.TEXT_4XL,
   text_5xl |-> font_size.TEXT_5XL, text_6xl |-> font_size.TEXT_6XL,
   text_7xl |-> font_size.TEXT_7XL, text_8xl |-> font_size.TEXT_8XL,
   text_9xl |-> font_size.TEXT_9XL]

\* src/src/lib.rs:2073-2081: the methods delegating to Style::font_weight
font_weight_methods ==
  [font_thin |-> font_weight.THIN, font_extralight |-> font_weight.EXTRALIGHT,
   font_light |-> font_weight.LIGHT, font_normal |-> font_weight.NORMAL,
   font_medium |-> font_weight.MEDIUM, font_semibold |-> font_weight.SEMIBOLD,
   font_bold |-> font_weight.BOLD, font_extrabold |-> font_weight.EXTRABOLD,
   font_black |-> font_weight.BLACK]

\* src/src/lib.rs:2086-2091: the methods delegating to Style::line_height
line_height_methods ==
  [leading_none |-> line_height.LEADING_NONE, leading_tight |-> line_height.LEADING_TIGHT,
   leading_snug |-> line_height.LEADING_SNUG, leading_normal |-> line_height.LEADING_NORMAL,
   leading_relaxed |-> line_height.LEADING_RELAXED, leading_loose |-> line_height.LEADING_LOOSE]

\* src/src/lib.rs:2095-2098: the methods delegating to Style::display
display_methods ==
  [flex |-> "Flex", block |-> "Block", grid |-> "Grid", hidden |-> "None"]

\* src/src/lib.rs:2101-2104: the methods delegating to Style::flex_direction
flex_direction_methods ==
  [flex_row |-> "Row", flex_col |-> "Column", flex_row_reverse |-> "RowReverse",
   flex_col_reverse |-> "ColumnReverse"]

\* src/src/lib.rs:2107-2109: the methods delegating to Style::flex_wrap
flex_wrap_methods ==
  [wrap |-> "Wrap", nowrap |-> "NoWrap", wrap_reverse |-> "WrapReverse"]

\* src/src/lib.rs:2112-2117: the methods delegating to Style::cursor
cursor_methods ==
  [cursor_pointer |-> "Pointer", cursor_default |-> "Default", cursor_text |-> "Text",
   cursor_move |-> "Move", cursor_grab |-> "Grab", cursor_grabbing |-> "Grabbing"]

\* src/src/lib.rs:2120-2130: the methods delegating to Style::border_color
border_color_methods ==
  [border_transparent |-> colors.TRANSPARENT, border_black |-> colors.BLACK,
   border_white |-> colors.WHITE, border_gray_200 |-> colors.gray.C200,
   border_gray_300 |-> colors.gray.C300, border_gray_400 |-> colors.gray.C400,
   border_gray_500 |-> colors.gray.C500, border_gray_600 |-> colors.gray.C600,
   border_red_500 |-> colors.red.C500, border_blue_500 |-> colors.blue.C500,
   border_green_500 |-> colors.green.C500]
\* the colors a caller hands to bg(color) and text(color): one outside the
\* palette and one of it
CallerColors == {"rgb(12,34,56)", colors.WHITE}

\* impl_size_methods as it would be with the width set twice and no height
impl_size_methods_width_only(self, value) == Style_width(Style_width(self, value), value)

\* impl_size_methods as it would be with the call of width left out
impl_size_methods_height_only(self, value) == Style_height(self, value)

\* impl_size_methods (src/src/lib.rs:282-290): self.width($value).height($value)
impl_size_methods(self, value) == Style_height(Style_width(self, value), value)

\* A call of a method of TailwindExt: its name and, for bg and text, the color
\* given ("" for the methods that take none).
Call(name_, arg_) == [name |-> name_, arg |-> arg_]

\* The body of the method called, on the style `self`.
Apply(call, self) ==
  LET n == call.name IN
  CASE n \in DOMAIN width_methods -> Style_width(self, width_methods[n])
    [] n \in DOMAIN height_methods -> Style_height(self, height_methods[n])
    [] n \in DOMAIN size_methods -> impl_size_methods(self, size_methods[n])
    [] n \in DOMAIN min_width_methods -> Style_min_width(self, min_width_methods[n])
    [] n \in DOMAIN max_width_methods -> Style_max_width(self, max_width_methods[n])
    [] n \in DOMAIN padding_methods -> Style_padding(self, padding_methods[n])
    [] n \in DOMAIN padding_x_methods -> Style_padding_horiz(self, padding_x_methods[n])
    [] n \in DOMAIN padding_y_methods -> Style_padding_vert(self, padding_y_methods[n])
    [] n \in DOMAIN padding_top_methods -> Style_padding_top(self, padding_top_methods[n])
    [] n \in DOMAIN padding_bottom_methods ->
         Style_padding_bottom(self, padding_bottom_methods[n])
    [] n \in DOMAIN padding_left_methods -> Style_padding_left(self, padding_left_methods[n])
    [] n \in DOMAIN padding_right_methods ->
         Style_padding_right(self, padding_right_methods[n])
    [] n \in DOMAIN margin_methods -> Style_margin(self, margin_methods[n])
    [] n \in DOMAIN margin_x_methods -> Style_margin_horiz(self, margin_x_methods[n])
    [] n \in DOMAIN margin_y_methods -> Style_margin_vert(self, margin_y_methods[n])
    [] n \in DOMAIN margin_top_methods -> Style_margin_top(self, margin_top_methods[n])
    [] n \in DOMAIN margin_bottom_methods ->
         Style_margin_bottom(self, margin_bottom_methods[n])
    [] n \in DOMAIN margin_left_methods -> Style_margin_left(self, margin_left_methods[n])
    [] n \in DOMAIN margin_right_methods -> Style_margin_right(self, margin_right_methods[n])
    [] n \in DOMAIN gap_methods -> Style_gap(self, gap_methods[n])
    [] n \in DOMAIN rounded_methods -> Style_border_radius(self, rounded_methods[n])
    [] n \in DOMAIN border_methods -> Style_border(self, border_methods[n])
    [] n \in DOMAIN shadow_methods -> Style_apply_box_shadows(self, shadow_methods[n])
    [] n = "bg" -> Style_background(self, call.arg)
    [] n \in DOMAIN bg_methods -> Style_background(self, bg_methods[n])
    [] n = "text" -> Style_color(self, call.arg)
    [] n \in DOMAIN text_methods -> Style_color(self, text_methods[n])
    [] n \in DOMAIN font_size_methods -> Style_font_size(self, font_size_methods[n])
    [] n \in DOMAIN font_weight_methods -> Style_font_weight(self, font_weight_methods[n])
    [] n \in DOMAIN line_height_methods -> Style_line_height(self, line_height_methods[n])
    [] n \in DOMAIN display_methods -> Style_display(self, display_methods[n])
    [] n \in DOMAIN flex_direction_methods ->
         Style_flex_direction(self, flex_direction_methods[n])
    [] n \in DOMAIN flex_wrap_methods -> Style_flex_wrap(self, flex_wrap_methods[n])
    [] n \in DOMAIN cursor_methods -> Style_cursor(self, cursor_methods[n])
    [] n \in DOMAIN border_color_methods -> Style_border_color(self, border_color_methods[n])

\* ------------------------------------------------------------------------
\* The state: the caller's style value, and as history the style before the
\* last call and the calls made since Style::new().  Where several callers
\* chain calls at once, each on a style of its own, `styles` holds the style
\* of each and `chains` the calls each has made.

\* the callers that each own a style
Callers == {"a", "b"}

VARIABLES style, prev, chain, styles, chains

vars == <<style, prev, chain, styles, chains>>

\* let style = Style::new(), for every caller
Init ==
  /\ style = Style_new
  /\ prev = Style_new
  /\ chain = <<>>
  /\ styles = [c \in Callers |-> Style_new]
  /\ chains = [c \in Callers |-> <<>>]

\* a call as it would be if the method kept the gap in a value of its own,
\* remembered from the call before, and not in the style it was given
Invoke_remembering(name, arg, returned) ==
  /\ style' = [returned EXCEPT !.gap = prev.gap]
  /\ prev' = style
  /\ chain' = Append(chain, Call(name, arg))
  /\ UNCHANGED <<styles, chains>>

\* style = style.name(arg), the method's body giving the style it returns
Invoke(name, arg, returned) ==
  /\ style' = returned
  /\ prev' = style
  /\ chain' = Append(chain, Call(name, arg))
  /\ UNCHANGED <<styles, chains>>

\* w_*
Call_width ==
  Len(chain) < MaxChain /\ \E name \in DOMAIN width_methods :
    Invoke(name, "", Style_width(style, width_methods[name]))

\* h_*
Call_height ==
  Len(chain) < MaxChain /\ \E name \in DOMAIN height_methods :
    Invoke(name, "", Style_height(style, height_methods[name]))

\* size_*
Call_size ==
  Len(chain) < MaxChain /\ \E name \in DOMAIN size_methods :
    Invoke(name, "", impl_size_methods(style, size_methods[name]))

\* min_w_*
Call_min_width ==
  Len(chain) < MaxChain /\ \E name \in DOMAIN min_width_methods :
    Invoke(name, "", Style_min_width(style, min_width_methods[name]))

\* max_w_*
Call_max_width ==
  Len(chain) < MaxChain /\ \E name \in DOMAIN max_width_methods :
    Invoke(name, "", Style_max_width(style, max_width_methods[name]))

\* p_*
Call_padding ==
  Len(chain) < MaxChain /\ \E name \in DOMAIN padding_methods :
    Invoke(name, "", Style_padding(style, padding_methods[name]))

\* px_*
Call_padding_x ==
  Len(chain) < MaxChain /\ \E name \in DOMAIN padding_x_methods :
    Invoke(name, "", Style_padding_horiz(style, padding_x_methods[name]))

\* py_*
Call_padding_y ==
  Len(chain) < MaxChain /\ \E name \in DOMAIN padding_y_methods :
    Invoke(name, "", Style_padding_vert(style, padding_y_methods[name]))

\* pt_*
Call_padding_top ==
  Len(chain) < MaxChain /\ \E name \in DOMAIN padding_top_methods :
    Invoke(name, "", Style_padding_top(style, padding_top_methods[name]))

\* pb_*
Call_padding_bottom ==
  Len(chain) < MaxChain /\ \E name \in DOMAIN padding_bottom_methods :
    Invoke(name, "", Style_padding_bottom(style, padding_bottom_methods[name]))

\* pl_*
Call_padding_left ==
  Len(chain) < MaxChain /\ \E name \in DOMAIN padding_left_methods :
    Invoke(name, "", Style_padding_left(style, padding_left_methods[name]))

\* pr_*
Call_padding_right ==
  Len(chain) < MaxChain /\ \E name \in DOMAIN padding_right_methods :
    Invoke(name, "", Style_padding_right(style, padding_right_methods[name]))

\* m_*
Call_margin ==
  Len(chain) < MaxChain /\ \E name \in DOMAIN margin_methods :
    Invoke(name, "", Style_margin(style, margin_methods[name]))

\* mx_*
Call_margin_x ==
  Len(chain) < MaxChain /\ \E name \in DOMAIN margin_x_methods :
    Invoke(name, "", Style_margin_horiz(style, margin_x_methods[name]))

\* my_*
Call_margin_y ==
  Len(chain) < MaxChain /\ \E name \in DOMAIN margin_y_methods :
    Invoke(name, "", Style_margin_vert(style, margin_y_methods[name]))

\* mt_*
Call_margin_top ==
  Len(chain) < MaxChain /\ \E name \in DOMAIN margin_top_methods :
    Invoke(name, "", Style_margin_top(style, margin_top_methods[name]))

\* mb_*
Call_margin_bottom ==
  Len(chain) < MaxChain /\ \E name \in DOMAIN margin_bottom_methods :
    Invoke(name, "", Style_margin_bottom(style, margin_bottom_methods[name]))

\* ml_*
Call_margin_left ==
  Len(chain) < MaxChain /\ \E name \in DOMAIN margin_left_methods :
    Invoke(name, "", Style_margin_left(style, margin_left_methods[name]))

\* mr_*
Call_margin_right ==
  Len(chain) < MaxChain /\ \E name \in DOMAIN margin_right_methods :
    Invoke(name, "", Style_margin_right(style, margin_right_methods[name]))

\* gap_*
Call_gap ==
  Len(chain) < MaxChain /\ \E name \in DOMAIN gap_methods :
    Invoke(name, "", Style_gap(style, gap_methods[name]))

\* rounded, rounded_*
Call_rounded ==
  Len(chain) < MaxChain /\ \E name \in DOMAIN rounded_methods :
    Invoke(name, "", Style_border_radius(style, rounded_methods[name]))

\* border_0 .. border_8
Call_border ==
  Len(chain) < MaxChain /\ \E name \in DOMAIN border_methods :
    Invoke(name, "", Style_border(style, border_methods[name]))

\* shadow, shadow_*
Call_shadow ==
  Len(chain) < MaxChain /\ \E name \in DOMAIN shadow_methods :
    Invoke(name, "", Style_apply_box_shadows(style, shadow_methods[name]))

\* bg(color)
Call_bg == Len(chain) < MaxChain /\ \E color \in CallerColors :
    Invoke("bg", color, Style_background(style, color))

\* bg_*
Call_bg_color ==
  Len(chain) < MaxChain /\ \E name \in DOMAIN bg_methods :
    Invoke(name, "", Style_background(style, bg_methods[name]))

\* text(color)
Call_text == Len(chain) < MaxChain /\ \E color \in CallerColors :
    Invoke("text", color, Style_color(style, color))

\* text_<color>
Call_text_color ==
  Len(chain) < MaxChain /\ \E name \in DOMAIN text_methods :
    Invoke(name, "", Style_color(style, text_methods[name]))

\* text_xs .. text_9xl
Call_font_size ==
  Len(chain) < MaxChain /\ \E name \in DOMAIN font_size_methods :
    Invoke(name, "", Style_font_size(style, font_size_methods[name]))

\* font_*
Call_font_weight ==
  Len(chain) < MaxChain /\ \E name \in DOMAIN font_weight_methods :
    Invoke(name, "", Style_font_weight(style, font_weight_methods[name]))

\* leading_*
Call_line_height ==
  Len(chain) < MaxChain /\ \E name \in DOMAIN line_height_methods :
    Invoke(name, "", Style_line_height(style, line_height_methods[name]))

\* flex, block, grid, hidden
Call_display ==
  Len(chain) < MaxChain /\ \E name \in DOMAIN display_methods :
    Invoke(name, "", Style_display(style, display_methods[name]))

\* flex_row, flex_col, flex_row_reverse, flex_col_reverse
Call_flex_direction ==
  Len(chain) < MaxChain /\ \E name \in DOMAIN flex_direction_methods :
    Invoke(name, "", Style_flex_direction(style, flex_direction_methods[name]))

\* wrap, nowrap, wrap_reverse
Call_flex_wrap ==
  Len(chain) < MaxChain /\ \E name \in DOMAIN flex_wrap_methods :
    Invoke(name, "", Style_flex_wrap(style, flex_wrap_methods[name]))

\* cursor_*
Call_cursor ==
  Len(chain) < MaxChain /\ \E name \in DOMAIN cursor_methods :
    Invoke(name, "", Style_cursor(style, cursor_methods[name]))

\* border_<color>
Call_border_color ==
  Len(chain) < MaxChain /\ \E name \in DOMAIN border_color_methods :
    Invoke(name, "", Style_border_color(style, border_color_methods[name]))

Next ==
  \/ Call_width \/ Call_height \/ Call_size \/ Call_min_width \/ Call_max_width
  \/ Call_padding \/ Call_padding_x \/ Call_padding_y
  \/ Call_padding_top \/ Call_padding_bottom \/ Call_padding_left \/ Call_padding_right
  \/ Call_margin \/ Call_margin_x \/ Call_margin_y
  \/ Call_margin_top \/ Call_margin_bottom \/ Call_margin_left \/ Call_margin_right
  \/ Call_gap \/ Call_rounded \/ Call_border \/ Call_shadow
  \/ Call_bg \/ Call_bg_color \/ Call_text \/ Call_text_color
  \/ Call_font_size \/ Call_font_weight \/ Call_line_height
  \/ Call_display \/ Call_flex_direction \/ Call_flex_wrap \/ Call_cursor
  \/ Call_border_color

Spec == Init /\ [][Next]_vars

\* ------------------------------------------------------------------------
\* Reading the state

\* the constant every method without an argument passes to its setter
Methods ==
  width_methods @@ height_methods @@ size_methods @@ min_width_methods @@ max_width_methods
  @@ padding_methods @@ padding_x_methods @@ padding_y_methods
  @@ padding_top_methods @@ padding_bottom_methods @@ padding_left_methods
  @@ padding_right_methods
  @@ margin_methods @@ margin_x_methods @@ margin_y_methods
  @@ margin_top_methods @@ margin_bottom_methods @@ margin_left_methods
  @@ margin_right_methods
  @@ gap_methods @@ rounded_methods @@ border_methods @@ shadow_methods
  @@ bg_methods @@ text_methods @@ font_size_methods @@ font_weight_methods
  @@ line_height_methods @@ display_methods @@ flex_direction_methods @@ flex_wrap_methods
  @@ cursor_methods @@ border_color_methods

\* the constant a call passes: the color given for bg and text
Constant(call) == IF call.name \in {"bg", "text"} THEN call.arg ELSE Methods[call.name]

\* the last call of the chain (of a chain that is not empty)
Last == chain[Len(chain)]

\* every call made went to the method Apply dispatches its name to
Dispatched == Len(chain) >= 1 => style = Apply(Last, prev)

\* what each method without an argument writes: the style it makes of a style
\* with nothing set
Fresh == [name \in DOMAIN Methods |-> Apply(Call(name, ""), Style_new)]

\* what a call writes
Writes(call) ==
  IF call.name \in {"bg", "text"} THEN Apply(call, Style_new) ELSE Fresh[call.name]

\* ------------------------------------------------------------------------
\* C1  Last write wins.  After any chain of calls, every property holds the
\* value written by the last call of the chain that writes it, and is unset
\* when no call of the chain writes it; so of two calls that write the same
\* property, the later one decides it, in either order.
LastWriteWins ==
  \A p \in Props :
    LET writers == {i \in 1..Len(chain) : Writes(chain[i])[p] # {}}
    IN  style[p] = IF writers = {} THEN {}
                   ELSE Writes(chain[CHOOSE i \in writers : \A j \in writers : j <= i])[p]

\* p_4 then px_2 both write the left padding: it holds px_2's 8 px, while the
\* top padding, which px_2 does not write, still holds p_4's 16 px
LastWriteWins_Witness ==
  /\ chain = <<Call("p_4", ""), Call("px_2", "")>>
  /\ style.padding_left = {Px(8)}
  /\ style.padding_right = {Px(8)}
  /\ style.padding_top = {Px(16)}

\* ------------------------------------------------------------------------
\* C2  Idempotence.  Calling on the style the method that was called last
\* gives the style again: op(op(s)) = op(s), for every method and every style
\* the chain before it produced.
Idempotent == Len(chain) >= 1 => Apply(Last, style) = style

\* shadow_md called twice: the second call changed nothing
Idempotent_Witness ==
  /\ chain = <<Call("shadow_md", ""), Call("shadow_md", "")>>
  /\ style = prev
  /\ style.box_shadow = {<<shadow_md>>}

\* ------------------------------------------------------------------------
\* The properties each method is to write, by the setter its family calls: one
\* property, but width and height for size_*, the left and right sides for
\* px_* and mx_*, the top and bottom sides for py_* and my_*, and all four sides
\* for p_* and m_*.
Targets ==
  [n \in DOMAIN width_methods |-> {"width"}]
  @@ [n \in DOMAIN height_methods |-> {"height"}]
  @@ [n \in DOMAIN size_methods |-> {"width", "height"}]
  @@ [n \in DOMAIN min_width_methods |-> {"min_width"}]
  @@ [n \in DOMAIN max_width_methods |-> {"max_width"}]
  @@ [n \in DOMAIN padding_methods |->
        {"padding_left", "padding_top", "padding_right", "padding_bottom"}]
  @@ [n \in DOMAIN padding_x_methods |-> {"padding_left", "padding_right"}]
  @@ [n \in DOMAIN padding_y_methods |-> {"padding_top", "padding_bottom"}]
  @@ [n \in DOMAIN padding_top_methods |-> {"padding_top"}]
  @@ [n \in DOMAIN padding_bottom_methods |-> {"padding_bottom"}]
  @@ [n \in DOMAIN padding_left_methods |-> {"padding_left"}]
  @@ [n \in DOMAIN padding_right_methods |-> {"padding_right"}]
  @@ [n \in DOMAIN margin_methods |->
        {"margin_left", "margin_top", "margin_right", "margin_bottom"}]
  @@ [n \in DOMAIN margin_x_methods |-> {"margin_left", "margin_right"}]
  @@ [n \in DOMAIN margin_y_methods |-> {"margin_top", "margin_bottom"}]
  @@ [n \in DOMAIN margin_top_methods |-> {"margin_top"}]
  @@ [n \in DOMAIN margin_bottom_methods |-> {"margin_bottom"}]
  @@ [n \in DOMAIN margin_left_methods |-> {"margin_left"}]
  @@ [n \in DOMAIN margin_right_methods |-> {"margin_right"}]
  @@ [n \in DOMAIN gap_methods |-> {"gap"}]
  @@ [n \in DOMAIN rounded_methods |-> {"border_radius"}]
  @@ [n \in DOMAIN border_methods |-> {"border"}]
  @@ [n \in DOMAIN shadow_methods |-> {"box_shadow"}]
  @@ [n \in DOMAIN bg_methods \cup {"bg"} |-> {"background"}]
  @@ [n \in DOMAIN text_methods \cup {"text"} |-> {"color"}]
  @@ [n \in DOMAIN font_size_methods |-> {"font_size"}]
  @@ [n \in DOMAIN font_weight_methods |-> {"font_weight"}]
  @@ [n \in DOMAIN line_height_methods |-> {"line_height"}]
  @@ [n \in DOMAIN display_methods |-> {"display"}]
  @@ [n \in DOMAIN flex_direction_methods |-> {"flex_direction"}]
  @@ [n \in DOMAIN flex_wrap_methods |-> {"flex_wrap"}]
  @@ [n \in DOMAIN cursor_methods |-> {"cursor"}]
  @@ [n \in DOMAIN border_color_methods |-> {"border_color"}]

\* the last call set the properties `written` to its constant and left every
\* other property as it was
SetsExactly(written) ==
  /\ \A p \in written : style[p] = {Constant(Last)}
  /\ \A p \in Props \ written : style[p] = prev[p]

SpacingStep ==
  [SPACING_0 |-> 0, SPACING_0_5 |-> 5, SPACING_1 |-> 10, SPACING_1_5 |-> 15, SPACING_2 |-> 20,
   SPACING_2_5 |-> 25, SPACING_3 |-> 30, SPACING_3_5 |-> 35, SPACING_4 |-> 40,
   SPACING_5 |-> 50, SPACING_6 |-> 60, SPACING_7 |-> 70, SPACING_8 |-> 80, SPACING_9 |-> 90,
   SPACING_10 |-> 100, SPACING_11 |-> 110, SPACING_12 |-> 120, SPACING_14 |-> 140,
   SPACING_16 |-> 160, SPACING_20 |-> 200, SPACING_24 |-> 240, SPACING_28 |-> 280,
   SPACING_32 |-> 320, SPACING_36 |-> 360, SPACING_40 |-> 400, SPACING_44 |-> 440,
   SPACING_48 |-> 480, SPACING_52 |-> 520, SPACING_56 |-> 560, SPACING_60 |-> 600,
   SPACING_64 |-> 640, SPACING_72 |-> 720, SPACING_80 |-> 800, SPACING_96 |-> 960]

\* C4  For every numeric step n of the spacing scale, SPACING_n is 4 * n
\* pixels, and the scale runs from 0 to 384 px; so every gap a method sets, but
\* the 1 px of gap_px, is a SPACING_n of 4 * n pixels.
SpacingScale ==
  /\ \A k \in DOMAIN SpacingStep : 10 * spacing[k] = 4 * SpacingStep[k]
  /\ \A k \in DOMAIN SpacingStep : 0 <= spacing[k] /\ spacing[k] <= 384
  /\ \E k \in DOMAIN SpacingStep : spacing[k] = 0
  /\ \E k \in DOMAIN SpacingStep : spacing[k] = 384
  /\ \A x \in style.gap :
       x = Px(1) \/ \E k \in DOMAIN SpacingStep :
                      x = Px(spacing[k]) /\ 10 * x.v = 4 * SpacingStep[k]

\* w_16 took SPACING_16 and gap_0p5 took SPACING_0_5
SpacingScale_Witness ==
  /\ chain = <<Call("w_16", ""), Call("gap_0p5", "")>>
  /\ style.width = {Px(spacing.SPACING_16)} /\ spacing.SPACING_16 = 64
  /\ style.gap = {Px(spacing.SPACING_0_5)} /\ spacing.SPACING_0_5 = 2

\* ------------------------------------------------------------------------
\* The prefixes of the pixel families and the step suffixes of their methods:
\* suffix N is step N, suffix NpM is step N.M (in tenths here).
PixelPrefixes ==
  {"w", "h", "size", "min_w", "max_w", "p", "px", "py", "pt", "pb", "pl", "pr",
   "m", "mx", "my", "mt", "mb", "ml", "mr", "gap"}

SuffixStep ==
  ("0" :> 0) @@ ("0p5" :> 5) @@ ("1" :> 10) @@ ("1p5" :> 15) @@ ("2" :> 20) @@ ("2p5" :> 25)
  @@ ("3" :> 30) @@ ("3p5" :> 35) @@ ("4" :> 40) @@ ("5" :> 50) @@ ("6" :> 60) @@ ("7" :> 70)
  @@ ("8" :> 80) @@ ("9" :> 90) @@ ("10" :> 100) @@ ("11" :> 110) @@ ("12" :> 120)
  @@ ("14" :> 140) @@ ("16" :> 160) @@ ("20" :> 200) @@ ("24" :> 240) @@ ("28" :> 280)
  @@ ("32" :> 320) @@ ("36" :> 360) @@ ("40" :> 400) @@ ("44" :> 440) @@ ("48" :> 480)
  @@ ("52" :> 520) @@ ("56" :> 560) @@ ("60" :> 600) @@ ("64" :> 640) @@ ("72" :> 720)
  @@ ("80" :> 800) @@ ("96" :> 960)

\* the pixels a step-suffixed method name of a pixel family stands for: 4 * n
\* for the suffix of step n, and 1 for the suffix px
StepPixels ==
  LET named == {<<f \o "_" \o s, (4 * SuffixStep[s]) \div 10>> :
                  f \in PixelPrefixes, s \in DOMAIN SuffixStep}
                 \cup {<<f \o "_px", 1>> : f \in PixelPrefixes}
  IN  [n \in {e[1] : e \in named} \cap DOMAIN Methods |->
         (CHOOSE e \in named : e[1] = n)[2]]

\* C5  Every step-suffixed method of every pixel family sets its target
\* property to exactly 4 * n px for the suffix of step n, to 0 px for suffix 0
\* and to 1 px for suffix px: so a suffix stands for the same pixel value in
\* every family that offers it.
StepSuffixPixels ==
  Len(chain) >= 1 /\ Last.name \in DOMAIN StepPixels =>
    \A p \in Targets[Last.name] : style[p] = {Px(StepPixels[Last.name])}

\* mx_3p5 and max_w_px: 14 px on the left and right margins, 1 px of max width
StepSuffixPixels_Witness ==
  /\ chain = <<Call("mx_3p5", ""), Call("max_w_px", "")>>
  /\ style.margin_left = {Px(14)} /\ style.margin_right = {Px(14)}
  /\ style.max_width = {Px(1)}

\* ------------------------------------------------------------------------
\* the alpha channel of the color of the one shadow a style holds
ShadowAlpha == {l[1].color[4] : l \in {l \in style.box_shadow : Len(l) = 1}}

\* C6 (as amended)  The shadow color built for an opacity of 0.05, the one of
\* shadow_sm, has the alpha channel 12: 0.05 * 255 = 12.75 with its fraction
\* dropped by the conversion to u8, not rounded.
ShadowSmAlphaTruncated ==
  Len(chain) >= 1 /\ Last.name = "shadow_sm" => ShadowAlpha = {(5 * 255) \div 100}

\* shadow_sm was called: the style holds its one shadow, of alpha 12
ShadowSmAlphaTruncated_Witness ==
  /\ Len(chain) >= 1 /\ Last.name = "shadow_sm"
  /\ style.box_shadow = {<<shadow_sm>>}
  /\ ShadowAlpha = {12}

\* C6 as stated: the alpha channel is round(0.05 * 255) = 13.
ShadowSmAlphaRounded ==
  Len(chain) >= 1 /\ Last.name = "shadow_sm" => ShadowAlpha = {(2 * 5 * 255 + 100) \div 200}

\* ------------------------------------------------------------------------
\* The fractions the names w_N_D and h_N_D stand for whose percentage is no
\* exact decimal.
Inexact ==
  [w_1_3 |-> <<1, 3>>, w_2_3 |-> <<2, 3>>, w_1_6 |-> <<1, 6>>, w_5_6 |-> <<5, 6>>,
   w_1_12 |-> <<1, 12>>,
   h_1_3 |-> <<1, 3>>, h_2_3 |-> <<2, 3>>, h_1_6 |-> <<1, 6>>, h_5_6 |-> <<5, 6>>,
   h_1_12 |-> <<1, 12>>]

\* num/den as a percentage in millionths, the digits after the sixth cut off
Truncated6(num, den) == (num * 100 * 1000000) \div den

\* num/den as a percentage in millionths, rounded to the nearest millionth
Rounded6(num, den) == (2 * num * 100 * 1000000 + den) \div (2 * den)

\* C7 (as amended)  The fractional widths and heights that are no exact
\* decimals (1/3, 2/3, 1/6, 5/6, 1/12) are each the exact fraction * 100
\* rounded to the nearest value of 6 decimal digits (66.666667 and 16.666667
\* are rounded up).
FractionsRounded ==
  Len(chain) >= 1 /\ Last.name \in DOMAIN Inexact =>
    \A p \in Targets[Last.name] :
      style[p] = {Pct(Rounded6(Inexact[Last.name][1], Inexact[Last.name][2]))}

\* w_2_3 then h_1_6: 66.666667 % and 16.666667 %, neither a truncation
FractionsRounded_Witness ==
  /\ chain = <<Call("w_2_3", ""), Call("h_1_6", "")>>
  /\ style.width = {Pct(66666667)} /\ Truncated6(2, 3) = 66666666
  /\ style.height = {Pct(16666667)} /\ Truncated6(1, 6) = 16666666

\* C7 as stated: each is the exact fraction * 100 truncated to 6 decimal digits.
FractionsTruncated ==
  Len(chain) >= 1 /\ Last.name \in DOMAIN Inexact =>
    \A p \in Targets[Last.name] :
      style[p] = {Pct(Truncated6(Inexact[Last.name][1], Inexact[Last.name][2]))}

\* ------------------------------------------------------------------------
\* the name of the last call of the chain that writes the property p ("" when
\* none does)
Holder(p) ==
  LET writers == {i \in 1..Len(chain) : p \in Targets[chain[i].name]}
  IN  IF writers = {} THEN ""
      ELSE chain[CHOOSE i \in writers : \A j \in writers : j <= i].name

\* the percentages the width and the height hold by a method of `names`
PctOf(names) ==
  {x.v : x \in UNION {style[p] : p \in {p \in {"width", "height"} : Holder(p) \in names}}}

\* a percentage in millionths lies within 1e-5 of 100.0
Near100(v) == v - 100000000 <= 10 /\ 100000000 - v <= 10

\* C8  w_1_2 and h_1_2 set exactly 50.0 %; the percentages of one third and of
\* two thirds sum to 100.0 within 1e-5; six times the percentage of one sixth
\* is 100.0 within 1e-5.
FractionSums ==
  /\ Len(chain) >= 1 /\ Last.name \in {"w_1_2", "h_1_2"} =>
       \A p \in Targets[Last.name] : style[p] = {Pct(50000000)}
  /\ \A a \in PctOf({"w_1_3", "h_1_3"}), b \in PctOf({"w_2_3", "h_2_3"}) : Near100(a + b)
  /\ \A a \in PctOf({"w_1_6", "h_1_6"}) : Near100(6 * a)

\* a third of the width and two thirds of the height
FractionSums_Witness ==
  /\ chain = <<Call("w_1_3", ""), Call("h_2_3", "")>>
  /\ style.width = {Pct(33333333)}
  /\ style.height = {Pct(66666667)}

\* ------------------------------------------------------------------------
\* the first named container sizes, in their order
NamedSizes == <<"xs", "sm", "md", "lg">>

\* the method of the prefix `f` named after the size `s`, where there is one
SizeMethods(s) == {f \o "_" \o s : f \in {"w", "h", "min_w", "max_w"}} \cap DOMAIN Methods

\* C9  The named container sizes are sm = 384, md = 448 and lg = 512, each
\* exactly 64 px above the size before it, from xs = 320; the methods named
\* after them set these values.
ContainerSizes ==
  LET px == [xs |-> spacing.SIZE_XS, sm |-> spacing.SIZE_SM, md |-> spacing.SIZE_MD,
             lg |-> spacing.SIZE_LG]
  IN  /\ px.xs = 320 /\ px.sm = 384 /\ px.md = 448 /\ px.lg = 512
      /\ \A i \in 2..Len(NamedSizes) : px[NamedSizes[i]] = px[NamedSizes[i - 1]] + 64
      /\ \A i \in 1..Len(NamedSizes) :
           Len(chain) >= 1 /\ Last.name \in SizeMethods(NamedSizes[i]) =>
             \A p \in Targets[Last.name] : style[p] = {Px(320 + 64 * (i - 1))}

\* w_md then max_w_lg
ContainerSizes_Witness ==
  /\ chain = <<Call("w_md", ""), Call("max_w_lg", "")>>
  /\ style.width = {Px(448)}
  /\ style.max_width = {Px(512)}

\* ------------------------------------------------------------------------
\* C10  The radius steps are sm = 2, md = 6 and lg = 8, and the full radius
\* is at least 9999 and strictly larger than every width or height in pixels
\* (minimum and maximum widths included) a method of the crate can set.
RadiusSteps ==
  /\ radius.ROUNDED_SM = 2 /\ radius.ROUNDED_MD = 6 /\ radius.ROUNDED_LG = 8
  /\ radius.ROUNDED_FULL >= 9999
  /\ \A p \in {"width", "height", "min_width", "max_width"} : \A x \in style[p] :
       x.unit = "Px" => x.v < radius.ROUNDED_FULL
  /\ Len(chain) >= 1 =>
       /\ Last.name = "rounded_sm" => style.border_radius = {Px(2)}
       /\ Last.name = "rounded_md" => style.border_radius = {Px(6)}
       /\ Last.name = "rounded_lg" => style.border_radius = {Px(8)}
       /\ Last.name = "rounded_full" => \A x \in style.border_radius : x.v >= 9999

\* the widest width there is, w_7xl, under rounded_full
RadiusSteps_Witness ==
  /\ chain = <<Call("w_7xl", ""), Call("rounded_full", "")>>
  /\ style.width = {Px(1280)}
  /\ style.border_radius = {Px(9999)}

\* ------------------------------------------------------------------------
\* The ordered tables, each in its natural order: the constants of the numeric
\* spacing steps, of the named container sizes, of the radius steps and of the
\* font-size steps.
SpacingOrder ==
  <<"SPACING_0", "SPACING_PX", "SPACING_0_5", "SPACING_1", "SPACING_1_5", "SPACING_2",
    "SPACING_2_5", "SPACING_3", "SPACING_3_5", "SPACING_4", "SPACING_5", "SPACING_6",
    "SPACING_7", "SPACING_8", "SPACING_9", "SPACING_10", "SPACING_11", "SPACING_12",
    "SPACING_14", "SPACING_16", "SPACING_20", "SPACING_24", "SPACING_28", "SPACING_32",
    "SPACING_36", "SPACING_40", "SPACING_44", "SPACING_48", "SPACING_52", "SPACING_56",
    "SPACING_60", "SPACING_64", "SPACING_72", "SPACING_80", "SPACING_96">>

SizeOrder ==
  <<"SIZE_XS", "SIZE_SM", "SIZE_MD", "SIZE_LG", "SIZE_XL", "SIZE_2XL", "SIZE_3XL",
    "SIZE_4XL", "SIZE_5XL", "SIZE_6XL", "SIZE_7XL">>

RadiusOrder ==
  <<"ROUNDED_NONE", "ROUNDED_SM", "ROUNDED", "ROUNDED_MD", "ROUNDED_LG", "ROUNDED_XL",
    "ROUNDED_2XL", "ROUNDED_3XL", "ROUNDED_FULL">>

FontSizeOrder ==
  <<"TEXT_XS", "TEXT_SM", "TEXT_BASE", "TEXT_LG", "TEXT_XL", "TEXT_2XL", "TEXT_3XL",
    "TEXT_4XL", "TEXT_5XL", "TEXT_6XL", "TEXT_7XL", "TEXT_8XL", "TEXT_9XL">>

\* the elements of a sequence
Range(seq) == {seq[i] : i \in 1..Len(seq)}

\* the table rises from each name of the order to the next
Increasing(table, order) ==
  \A i \in 1..(Len(order) - 1) : table[order[i]] < table[order[i + 1]]

\* The methods of one family named after the steps of one ordered table, in the
\* order of the table: the suffixes of the spacing steps and of the container
\* sizes under every pixel prefix, the rounded_* and the text_<size> methods.
SuffixOrder ==
  <<"0", "px", "0p5", "1", "1p5", "2", "2p5", "3", "3p5", "4", "5", "6", "7", "8", "9",
    "10", "11", "12", "14", "16", "20", "24", "28", "32", "36", "40", "44", "48", "52",
    "56", "60", "64", "72", "80", "96">>

SizeSuffixOrder == <<"xs", "sm", "md", "lg", "xl", "2xl", "3xl", "4xl", "5xl", "6xl", "7xl">>

RoundedOrder ==
  <<"rounded_none", "rounded_sm", "rounded", "rounded_md", "rounded_lg", "rounded_xl",
    "rounded_2xl", "rounded_3xl", "rounded_full">>

FontSuffixOrder ==
  <<"xs", "sm", "base", "lg", "xl", "2xl", "3xl", "4xl", "5xl", "6xl", "7xl", "8xl", "9xl">>

\* the place of a method on its ladder: the ladder (family and table) and the
\* index of the method's step in the order of the table
Rung ==
  LET steps == {<<f \o "_" \o SuffixOrder[i], <<f, i>>>> :
                  f \in PixelPrefixes, i \in 1..Len(SuffixOrder)}
      sizes == {<<f \o "_" \o SizeSuffixOrder[i], <<f \o " size", i>>>> :
                  f \in PixelPrefixes, i \in 1..Len(SizeSuffixOrder)}
      round == {<<RoundedOrder[i], <<"rounded", i>>>> : i \in 1..Len(RoundedOrder)}
      fonts == {<<"text_" \o FontSuffixOrder[i], <<"text", i>>>> :
                  i \in 1..Len(FontSuffixOrder)}
      all == steps \cup sizes \cup round \cup fonts
  IN  [n \in {e[1] : e \in all} \cap DOMAIN Methods |-> (CHOOSE e \in all : e[1] = n)[2]]

\* the number a property holds: a font size is held as a number, a length as
\* pixels
Magnitude(p, value) == IF p = "font_size" THEN value ELSE value.v

\* ------------------------------------------------------------------------
\* C11  Every name of a table stands for one value, and every ordered table
\* rises strictly along its natural order: the numeric spacing steps
\* (0, px, 0.5, 1, ..., 96), the named container sizes (xs ... 7xl), the radius
\* steps (none ... full) and the font-size steps (xs ... 9xl).  So of two
\* methods of one family called one after the other, the one of the later step
\* writes the larger value.
ScalesIncrease ==
  /\ Range(SpacingOrder) \cup Range(SizeOrder) = DOMAIN spacing
  /\ Range(RadiusOrder) = DOMAIN radius
  /\ Range(FontSizeOrder) = DOMAIN font_size
  /\ Increasing(spacing, SpacingOrder)
  /\ Increasing(spacing, SizeOrder)
  /\ Increasing(radius, RadiusOrder)
  /\ Increasing(font_size, FontSizeOrder)
  /\ Len(chain) = 2 /\ chain[1].name \in DOMAIN Rung /\ chain[2].name \in DOMAIN Rung
       /\ Rung[chain[1].name][1] = Rung[chain[2].name][1]
       /\ Rung[chain[1].name][2] < Rung[chain[2].name][2] =>
         \A p \in Targets[chain[2].name] :
           \A x \in prev[p], y \in style[p] : Magnitude(p, x) < Magnitude(p, y)

\* text_6xl then text_7xl: the font size went up from 60 to 72
ScalesIncrease_Witness ==
  /\ chain = <<Call("text_6xl", ""), Call("text_7xl", "")>>
  /\ prev.font_size = {60}
  /\ style.font_size = {72}

\* ------------------------------------------------------------------------
\* The callers the repository shows: the chain of the crate documentation
\* (src/src/lib.rs:24-29) and the card style of the demo
\* (src/examples/demo.rs:45-53).  A caller of either kind calls the methods of
\* its chain on the style, in any order and any number of times, up to the
\* length of its chain.

\* Style::new().w_64().h_32().p_4().gap_2().rounded_lg()
DocUsage == <<"w_64", "h_32", "p_4", "gap_2", "rounded_lg">>

\* s.mt_8().p_4().bg_white().rounded_lg().border_1().border_gray_200().w_md()
CardUsage == <<"mt_8", "p_4", "bg_white", "rounded_lg", "border_1", "border_gray_200", "w_md">>

\* the names of the calls made
Names == [i \in 1..Len(chain) |-> chain[i].name]

\* one more call of a method of the chain `usage`
Use(usage) ==
  /\ Len(chain) < Len(usage)
  /\ Range(Names) \subseteq Range(usage)
  /\ \E i \in 1..Len(usage) : Invoke(usage[i], "", Apply(Call(usage[i], ""), style))

Call_doc == Use(DocUsage)

Call_card == Use(CardUsage)

UsageNext == Call_doc \/ Call_card

UsageSpec == Init /\ [][UsageNext]_vars

\* no two calls of the chain write a common property
DistinctTargets ==
  \A i, j \in 1..Len(chain) :
    i # j => Targets[chain[i].name] \cap Targets[chain[j].name] = {}

\* ------------------------------------------------------------------------
\* C12  A chain of calls that write pairwise distinct properties ends in a
\* style where every property written holds the constant of the call that
\* wrote it.  The chain of the documentation ends with width 256 px, height
\* 128 px, padding 16 px, gap 8 px and border radius 8 px; the card chain of
\* the demo with top margin 32 px, padding 16 px, white background, radius
\* 8 px, border width 1 px, border color gray-200 and width 448 px.
ChainKeepsEveryConstant ==
  /\ DistinctTargets =>
       \A i \in 1..Len(chain) :
         \A p \in Targets[chain[i].name] : style[p] = {Constant(chain[i])}
  /\ Names = DocUsage =>
       /\ style.width = {Px(256)} /\ style.height = {Px(128)}
       /\ \A p \in {"padding_left", "padding_top", "padding_right", "padding_bottom"} :
            style[p] = {Px(16)}
       /\ style.gap = {Px(8)} /\ style.border_radius = {Px(8)}
  /\ Names = CardUsage =>
       /\ style.margin_top = {Px(32)}
       /\ \A p \in {"padding_left", "padding_top", "padding_right", "padding_bottom"} :
            style[p] = {Px(16)}
       /\ style.background = {colors.WHITE}
       /\ style.border_radius = {Px(8)}
       /\ style.border = {Px(1)}
       /\ style.border_color = {colors.gray.C200}
       /\ style.width = {Px(448)}

\* the card chain of the demo was run in its order: seven calls on seven
\* groups of properties, ten properties set, the other sixteen still unset
ChainKeepsEveryConstant_Witness ==
  /\ Names = CardUsage
  /\ DistinctTargets
  /\ style.margin_top = {Px(32)} /\ style.border = {Px(1)} /\ style.width = {Px(448)}
  /\ Cardinality({p \in Props : style[p] # {}}) = 10

\* ------------------------------------------------------------------------
\* a style value: every property of Props, each unset or holding one value
IsStyle(s) == DOMAIN s = Props /\ \A p \in Props : Cardinality(s[p]) <= 1

\* every call there is: every method without an argument, and bg and text with
\* every color a caller hands over
Calls ==
  {Call(name, "") : name \in DOMAIN Methods}
    \cup {Call(name, color) : name \in {"bg", "text"}, color \in CallerColors}

\* ------------------------------------------------------------------------
\* C13  Totality.  The style after any chain of calls is a style value, and
\* wherever the chain can go on, every method (bg and text with any color) can
\* be called on it and returns a style value again: no call has an error
\* outcome, and no state that is not a style is reached.
Total ==
  /\ IsStyle(style)
  /\ Len(chain) < MaxChain => \A call \in Calls : IsStyle(Apply(call, style))

\* after rounded_full, the largest constant of the crate: the result is a
\* style, and every one of the 669 calls can follow
Total_Witness ==
  /\ chain = <<Call("rounded_full", "")>>
  /\ style.border_radius = {Px(9999)}
  /\ Cardinality(Calls) = 669
  /\ \A call \in Calls : IsStyle(Apply(call, style))

\* ------------------------------------------------------------------------
\* the style the calls of `calls`, made one after the other, make of `from`
RECURSIVE Replay(_, _)
Replay(calls, from) ==
  IF calls = <<>> THEN from
  ELSE Replay(Tail(calls), Apply(Head(calls), from))

MaxOwn == 2

\* the methods the callers call
OwnMethods == Range(DocUsage) \cup Range(CardUsage)

\* a call as it would be were the style one value shared by the callers
CallerStep_shared(c, call) ==
  /\ chains' = [chains EXCEPT ![c] = Append(@, call)]
  /\ styles' = [d \in Callers |-> Apply(call, styles[c])]
  /\ UNCHANGED <<style, prev, chain>>

\* styles[c] = styles[c].name(arg): the caller c makes one call on its style
CallerStep(c, call) ==
  /\ chains' = [chains EXCEPT ![c] = Append(@, call)]
  /\ styles' = [styles EXCEPT ![c] = Apply(call, styles[c])]
  /\ UNCHANGED <<style, prev, chain>>

Call_own ==
  \E c \in Callers :
    /\ Len(chains[c]) < MaxOwn
    /\ \E name \in OwnMethods : CallerStep(c, Call(name, ""))

CallersNext == Call_own

CallersSpec == Init /\ [][CallersNext]_vars

DisjointCallsCommute ==
  Len(chain) = 2 /\ Targets[chain[1].name] \cap Targets[chain[2].name] = {} =>
    /\ style = Apply(chain[1], Apply(chain[2], Style_new))
    /\ \A s \in {prev, style} :
         Apply(chain[2], Apply(chain[1], s)) = Apply(chain[1], Apply(chain[2], s))

\* text_lg then text_white, a font size and a text color: the style is the
\* one text_white then text_lg makes
DisjointCallsCommute_Witness ==
  /\ chain = <<Call("text_lg", ""), Call("text_white", "")>>
  /\ style.font_size = {18}
  /\ style.color = {colors.WHITE}
  /\ style = Apply(Call("text_lg", ""), Apply(Call("text_white", ""), Style_new))

\* ------------------------------------------------------------------------
\* The documented shadow presets, by the method named after each:
\* (h_offset, v_offset, blur, spread, opacity), the opacity in hundredths.
DocumentedShadows ==
  [shadow_sm |-> <<0, 1, 2, 0, 5>>, shadow |-> <<0, 1, 3, 0, 10>>,
   shadow_md |-> <<0, 4, 6, -1, 10>>, shadow_lg |-> <<0, 10, 15, -3, 10>>,
   shadow_xl |-> <<0, 20, 25, -5, 10>>, shadow_2xl |-> <<0, 25, 50, -12, 25>>]

\* the box shadow of a documented 5-tuple: black, its alpha channel the u8 of
\* opacity * 255
ShadowOf(d) ==
  [h_offset |-> d[1], v_offset |-> d[2], blur_radius |-> d[3], spread |-> d[4],
   color |-> <<0, 0, 0, (d[5] * 255) \div 100>>]

\* C17  There are exactly 6 shadow presets (sm, default, md, lg, xl, 2xl),
\* each built of its documented (h_offset, v_offset, blur, spread, opacity):
\* sm (0,1,2,0,0.05), default (0,1,3,0,0.1), md (0,4,6,-1,0.1),
\* lg (0,10,15,-3,0.1), xl (0,20,25,-5,0.1), 2xl (0,25,50,-12,0.25); and each
\* shadow_* method installs the one preset named like it (shadow_none none).
ShadowPresets ==
  /\ Cardinality({shadow_sm, shadow_default, shadow_md, shadow_lg, shadow_xl, shadow_2xl}) = 6
  /\ shadow_sm = ShadowOf(DocumentedShadows.shadow_sm)
  /\ shadow_default = ShadowOf(DocumentedShadows.shadow)
  /\ shadow_md = ShadowOf(DocumentedShadows.shadow_md)
  /\ shadow_lg = ShadowOf(DocumentedShadows.shadow_lg)
  /\ shadow_xl = ShadowOf(DocumentedShadows.shadow_xl)
  /\ shadow_2xl = ShadowOf(DocumentedShadows.shadow_2xl)
  /\ DOMAIN shadow_methods = DOMAIN DocumentedShadows \cup {"shadow_none"}
  /\ Len(chain) >= 1 /\ Last.name \in DOMAIN DocumentedShadows =>
       style.box_shadow = {<<ShadowOf(DocumentedShadows[Last.name])>>}
  /\ Len(chain) >= 1 /\ Last.name = "shadow_none" => style.box_shadow = {<<>>}

\* shadow_md after shadow_2xl: the style holds the one shadow (0, 4, 6, -1) of
\* alpha 25
ShadowPresets_Witness ==
  /\ chain = <<Call("shadow_2xl", ""), Call("shadow_md", "")>>
  /\ prev.box_shadow = {<<BoxShadow(0, 25, 50, -12, <<0, 0, 0, 63>>)>>}
  /\ style.box_shadow = {<<BoxShadow(0, 4, 6, -1, <<0, 0, 0, 25>>)>>}

\* ------------------------------------------------------------------------
\* The palette by the names the methods carry: <hue>_<shade> for the eleven
\* shades of the eleven hues, and black, white and transparent.
Hues ==
  {"slate", "gray", "zinc", "red", "orange", "yellow", "green", "blue", "indigo",
   "purple", "pink"}

ShadeSteps == {"50", "100", "200", "300", "400", "500", "600", "700", "800", "900", "950"}

Named ==
  LET shades == {<<h \o "_" \o s, colors[h]["C" \o s]>> : h \in Hues, s \in ShadeSteps}
      plain == {<<"black", colors.BLACK>>, <<"white", colors.WHITE>>,
                <<"transparent", colors.TRANSPARENT>>}
      all == shades \cup plain
  IN  [k \in {e[1] : e \in all} |-> (CHOOSE e \in all : e[1] = k)[2]]

\* every method of the table carries, after the prefix, the name of the palette
\* entry it passes
LikeNamed(prefix, table) ==
  \A n \in DOMAIN table : \E k \in DOMAIN Named : n = prefix \o "_" \o k /\ table[n] = Named[k]

\* the background family is the eleven hues in the eleven shades with black,
\* white and transparent, and the three color tables are wired like-named
ColorTablesLikeNamed ==
  /\ Cardinality(Hues) = 11 /\ Cardinality(ShadeSteps) = 11
  /\ DOMAIN bg_methods = {"bg_" \o k : k \in DOMAIN Named}
  /\ Cardinality(DOMAIN bg_methods) = 11 * 11 + 3
  /\ LikeNamed("bg", bg_methods)
  /\ LikeNamed("text", text_methods)
  /\ LikeNamed("border", border_color_methods)

\* what the name of a color method says: the property named like its prefix
\* and the palette entry named like the rest
SaidByName ==
  LET said == {<<f[1] \o "_" \o k, <<f[2], Named[k]>>>> :
                 f \in {<<"bg", "background">>, <<"text", "color">>,
                        <<"border", "border_color">>},
                 k \in DOMAIN Named}
  IN  [n \in {e[1] : e \in said} \cap DOMAIN Methods |-> (CHOOSE e \in said : e[1] = n)[2]]

\* C18  The background family covers the 11 hues (slate, gray, zinc, red,
\* orange, yellow, green, blue, indigo, purple, pink) in the 11 shades
\* (50, 100, ..., 900, 950) and black, white and transparent; and every color
\* method is wired to the palette entry named like it, on the property named
\* like it: bg_<hue>_<shade> sets the background, text_<hue>_<shade> the text
\* color and border_<hue>_<shade> the border color to the entry <hue>/<shade>.
ColorsLikeNamed ==
  /\ ColorTablesLikeNamed
  /\ DOMAIN SaidByName =
       DOMAIN bg_methods \cup DOMAIN text_methods \cup DOMAIN border_color_methods
  /\ Len(chain) >= 1 /\ Last.name \in DOMAIN SaidByName =>
       /\ style[SaidByName[Last.name][1]] = {SaidByName[Last.name][2]}
       /\ \A p \in {"background", "color", "border_color"} \ {SaidByName[Last.name][1]} :
            style[p] = prev[p]

\* the chain of the documentation on colors, its first two calls: a blue-500
\* background and white text
ColorsLikeNamed_Witness ==
  /\ chain = <<Call("bg_blue_500", ""), Call("text_white", "")>>
  /\ style.background = {colors.blue.C500}
  /\ style.color = {colors.WHITE}
  /\ style.border_color = {}

\* ------------------------------------------------------------------------
\* the font-size scale: thirteen steps, from 12 px to 128 px, and the method
\* text_<step> of every step passing the constant of its step
FontSizeTable ==
  /\ Cardinality(DOMAIN font_size) = 13
  /\ Len(FontSizeOrder) = 13 /\ Len(FontSuffixOrder) = 13
  /\ font_size[FontSizeOrder[1]] = 12 /\ font_size[FontSizeOrder[13]] = 128
  /\ \A k \in DOMAIN font_size : 12 <= font_size[k] /\ font_size[k] <= 128
  /\ DOMAIN font_size_methods = {"text_" \o FontSuffixOrder[i] : i \in 1..13}
  /\ \A i \in 1..13 :
       font_size_methods["text_" \o FontSuffixOrder[i]] = font_size[FontSizeOrder[i]]

\* C19  The font-size scale has exactly 13 named steps (xs, sm, base, lg, xl,
\* 2xl ... 9xl) running from 12 px to 128 px, and each text_<step> method sets
\* the font size to the value of its step.
FontSizeSteps ==
  /\ FontSizeTable
  /\ Len(chain) >= 1 /\ Last.name \in DOMAIN font_size_methods =>
       /\ Rung[Last.name][1] = "text"
       /\ style.font_size = {font_size[FontSizeOrder[Rung[Last.name][2]]]}

\* text_xs then text_9xl, the two ends of the scale
FontSizeSteps_Witness ==
  /\ chain = <<Call("text_xs", ""), Call("text_9xl", "")>>
  /\ prev.font_size = {12}
  /\ style.font_size = {128}

\* ------------------------------------------------------------------------
\* the font-weight steps in their order, as the constants and as the methods
\* are named
WeightOrder ==
  <<"THIN", "EXTRALIGHT", "LIGHT", "NORMAL", "MEDIUM", "SEMIBOLD", "BOLD", "EXTRABOLD",
    "BLACK">>

WeightMethodOrder ==
  <<"font_thin", "font_extralight", "font_light", "font_normal", "font_medium",
    "font_semibold", "font_bold", "font_extrabold", "font_black">>

\* the place of a font-weight method in the order of the steps
WeightRung ==
  [n \in Range(WeightMethodOrder) |->
     CHOOSE i \in 1..Len(WeightMethodOrder) : WeightMethodOrder[i] = n]

\* nine steps, the i-th of weight 100 * i, and the method of every step
\* passing the constant of its step
FontWeightTable ==
  /\ Len(WeightOrder) = 9 /\ Cardinality(Range(WeightOrder)) = 9
  /\ Range(WeightOrder) = DOMAIN font_weight
  /\ Range(WeightMethodOrder) = DOMAIN font_weight_methods
  /\ \A i \in 1..9 : font_weight[WeightOrder[i]] = 100 * i
  /\ \A i \in 1..9 : font_weight_methods[WeightMethodOrder[i]] = font_weight[WeightOrder[i]]

\* C20  The font-weight scale has exactly 9 named steps (thin, extralight,
\* light, normal, medium, semibold, bold, extrabold, black), in that order of
\* the weights 100, 200, ..., 900, and each font_<step> method sets the font
\* weight to the value of its step.
FontWeightSteps ==
  /\ FontWeightTable
  /\ Len(chain) >= 1 /\ Last.name \in DOMAIN WeightRung =>
       style.font_weight = {100 * WeightRung[Last.name]}

\* font_semibold then font_black
FontWeightSteps_Witness ==
  /\ chain = <<Call("font_semibold", ""), Call("font_black", "")>>
  /\ prev.font_weight = {600}
  /\ style.font_weight = {900}

\* ------------------------------------------------------------------------
\* the methods w_n and h_n of the step of every size_n
SizeSiblings ==
  LET named == {<<"size_" \o s, <<"w_" \o s, "h_" \o s>>>> : s \in Range(SuffixOrder)}
  IN  [n \in DOMAIN size_methods |-> (CHOOSE e \in named : e[1] = n)[2]]

\* every size_n has its w_n and its h_n, of the same constant
SizeTable ==
  /\ DOMAIN size_methods = {"size_" \o s : s \in Range(SuffixOrder)}
  /\ \A n \in DOMAIN size_methods :
       /\ SizeSiblings[n][1] \in DOMAIN width_methods
       /\ SizeSiblings[n][2] \in DOMAIN height_methods
       /\ width_methods[SizeSiblings[n][1]] = size_methods[n]
       /\ height_methods[SizeSiblings[n][2]] = size_methods[n]

\* C21  For every step n, size_n makes of a style what w_n followed by h_n
\* makes of it, and what h_n followed by w_n makes of it; after size_n a later
\* w_m changes the width alone and leaves the height at the value of n, and a
\* later h_m the height alone.
SizeIsWidthThenHeight ==
  /\ SizeTable
  /\ Len(chain) >= 1 /\ Last.name \in DOMAIN size_methods =>
       LET w == Call(SizeSiblings[Last.name][1], "")
           h == Call(SizeSiblings[Last.name][2], "")
       IN  /\ style = Apply(h, Apply(w, prev))
           /\ style = Apply(w, Apply(h, prev))
  /\ Len(chain) = 2 /\ chain[1].name \in DOMAIN size_methods =>
       /\ chain[2].name \in DOMAIN width_methods =>
            /\ style.width = {width_methods[chain[2].name]}
            /\ style.height = {size_methods[chain[1].name]}
            /\ \A p \in Props \ {"width"} : style[p] = prev[p]
       /\ chain[2].name \in DOMAIN height_methods =>
            /\ style.height = {height_methods[chain[2].name]}
            /\ style.width = {size_methods[chain[1].name]}
            /\ \A p \in Props \ {"height"} : style[p] = prev[p]

\* size_8 then w_full: the width is 100 %, the height still the 32 px of size_8
SizeIsWidthThenHeight_Witness ==
  /\ chain = <<Call("size_8", ""), Call("w_full", "")>>
  /\ prev.width = {Px(32)} /\ prev.height = {Px(32)}
  /\ style.width = {Pct(100000000)}
  /\ style.height = {Px(32)}

\* ------------------------------------------------------------------------
\* the four sides of the padding and of the margin
PaddingSides == {"padding_left", "padding_top", "padding_right", "padding_bottom"}

MarginSides == {"margin_left", "margin_top", "margin_right", "margin_bottom"}

\* the methods that write some but not all sides: per axis and per side
PartialPadding ==
  DOMAIN padding_x_methods \cup DOMAIN padding_y_methods \cup DOMAIN padding_top_methods
    \cup DOMAIN padding_bottom_methods \cup DOMAIN padding_left_methods
    \cup DOMAIN padding_right_methods

PartialMargin ==
  DOMAIN margin_x_methods \cup DOMAIN margin_y_methods \cup DOMAIN margin_top_methods
    \cup DOMAIN margin_bottom_methods \cup DOMAIN margin_left_methods
    \cup DOMAIN margin_right_methods

\* the last call wrote all of `sides`, whatever they held
OverwritesAll(sides) == \A p \in sides : style[p] = {Constant(Last)}

\* the chain is a call of all of `sides` and then a call of some of them: these
\* hold the constant of the second call and the others that of the first, and
\* with two different constants the other order gives another style
OverwritesOwn(sides) ==
  /\ \A p \in Targets[chain[2].name] : style[p] = {Constant(chain[2])}
  /\ \A p \in sides \ Targets[chain[2].name] : style[p] = {Constant(chain[1])}
  /\ Constant(chain[1]) # Constant(chain[2]) =>
       style # Apply(chain[1], Apply(chain[2], Style_new))

\* C22  The aggregate and the partial spacing methods overlap one way.  p_n
\* (m_n) called after any method of one axis or one side writes all four
\* sides with the value of n; a method of one axis (px_, py_, mx_, my_) or of
\* one side (pt_ .. pr_, mt_ .. mr_) called after p_n (m_n) writes its own
\* sides only and leaves the other sides at the value of n.  So p_4 then px_2
\* is not px_2 then p_4.
AggregateOverwritesSides ==
  /\ Len(chain) >= 1 /\ Last.name \in DOMAIN padding_methods => OverwritesAll(PaddingSides)
  /\ Len(chain) >= 1 /\ Last.name \in DOMAIN margin_methods => OverwritesAll(MarginSides)
  /\ Len(chain) = 2 /\ chain[1].name \in DOMAIN padding_methods
       /\ chain[2].name \in PartialPadding => OverwritesOwn(PaddingSides)
  /\ Len(chain) = 2 /\ chain[1].name \in DOMAIN margin_methods
       /\ chain[2].name \in PartialMargin => OverwritesOwn(MarginSides)

\* mt_auto after m_4: the top margin is Auto, the other three still 16 px; the
\* other order would leave 16 px on all four
AggregateOverwritesSides_Witness ==
  /\ chain = <<Call("m_4", ""), Call("mt_auto", "")>>
  /\ style.margin_top = {Auto}
  /\ \A p \in MarginSides \ {"margin_top"} : style[p] = {Px(16)}
  /\ \A p \in MarginSides :
       Apply(Call("m_4", ""), Apply(Call("mt_auto", ""), Style_new))[p] = {Px(16)}

\* ------------------------------------------------------------------------
\* C23  After any chain of calls the list of box shadows of the style has at
\* most one element: every shadow_* preset method puts its one preset in the
\* place of the whole list, whatever the list held (shadows never pile up),
\* and shadow_none leaves the list empty.
OneShadowAtMost ==
  /\ \A l \in style.box_shadow : Len(l) <= 1
  /\ Len(chain) >= 1 /\ Last.name \in DOMAIN shadow_methods =>
       /\ style.box_shadow = {shadow_methods[Last.name]}
       /\ Last.name # "shadow_none" => \A l \in style.box_shadow : Len(l) = 1
       /\ Last.name = "shadow_none" => \A l \in style.box_shadow : Len(l) = 0

\* shadow_none after shadow_xl: the list held one shadow and is empty now
OneShadowAtMost_Witness ==
  /\ chain = <<Call("shadow_xl", ""), Call("shadow_none", "")>>
  /\ prev.box_shadow = {<<shadow_xl>>}
  /\ style.box_shadow = {<<>>}

\* ------------------------------------------------------------------------
\* The auto methods: the sides each is to write, and a pixel method of the
\* same family.
AutoSides ==
  [m_auto |-> MarginSides, mx_auto |-> {"margin_left", "margin_right"},
   my_auto |-> {"margin_top", "margin_bottom"}, mt_auto |-> {"margin_top"},
   mb_auto |-> {"margin_bottom"}, ml_auto |-> {"margin_left"},
   mr_auto |-> {"margin_right"}, w_auto |-> {"width"}, h_auto |-> {"height"}]

AutoSibling ==
  [m_auto |-> "m_4", mx_auto |-> "mx_4", my_auto |-> "my_4", mt_auto |-> "mt_4",
   mb_auto |-> "mb_4", ml_auto |-> "ml_4", mr_auto |-> "mr_4", w_auto |-> "w_4",
   h_auto |-> "h_4"]

\* the properties that hold a length
Dimensions ==
  {"width", "height", "min_width", "max_width", "gap", "border", "border_radius"}
    \cup PaddingSides \cup MarginSides

\* the auto methods are the nine, each passes Auto, and each writes the sides
\* its pixel sibling writes
AutoTable ==
  /\ {n \in DOMAIN Methods : Targets[n] \subseteq Dimensions /\ Methods[n] = Auto}
       = DOMAIN AutoSides
  /\ \A n \in DOMAIN AutoSides :
       /\ Targets[n] = AutoSides[n]
       /\ Targets[AutoSibling[n]] = AutoSides[n]
       /\ Methods[AutoSibling[n]] = Px(16)

BorderN == [border_0 |-> 0, border_1 |-> 1, border_2 |-> 2, border_4 |-> 4, border_8 |-> 8]

\* border_N passes N px, for N of 0, 1, 2, 4 and 8, and no 4 * N px
BorderTable ==
  /\ DOMAIN border_methods = DOMAIN BorderN
  /\ {BorderN[n] : n \in DOMAIN BorderN} = {0, 1, 2, 4, 8}
  /\ \A n \in DOMAIN BorderN :
       /\ border_methods[n] = Px(BorderN[n])
       /\ BorderN[n] > 0 => border_methods[n] # Px(4 * BorderN[n])

\* C25  The border-width methods do not use the 4 px spacing scale: border_N
\* sets the border width to exactly N px, for N of 0, 1, 2, 4 and 8.  A
\* border-width method never changes the border color, and a border-color
\* method (border_black, border_gray_300, ...) never changes the border width.
BorderWidthPlain ==
  /\ BorderTable
  /\ Len(chain) >= 1 /\ Last.name \in DOMAIN border_methods =>
       /\ style.border = {Px(BorderN[Last.name])}
       /\ style.border_color = prev.border_color
  /\ Len(chain) >= 1 /\ Last.name \in DOMAIN border_color_methods =>
       /\ style.border_color = {border_color_methods[Last.name]}
       /\ style.border = prev.border

\* border_gray_300 after border_4: a gray-300 border, still 4 px wide
BorderWidthPlain_Witness ==
  /\ chain = <<Call("border_4", ""), Call("border_gray_300", "")>>
  /\ prev.border = {Px(4)} /\ prev.border_color = {}
  /\ style.border = {Px(4)}
  /\ style.border_color = {colors.gray.C300}

\* ------------------------------------------------------------------------
\* A caller of the methods that share the prefix text_: the font sizes text_xs
\* .. text_9xl (src/src/lib.rs:2055-2069) and the text colors text(color),
\* text_black .. text_<hue>_<shade> (src/src/lib.rs:1989-2052), in any order.

\* the longest chain of text methods
MaxText == 3

\* the calls of the two kinds
FontSizeCalls == {Call(name, "") : name \in DOMAIN font_size_methods}

TextColorCalls ==
  {Call(name, "") : name \in DOMAIN text_methods}
    \cup {Call("text", color) : color \in CallerColors}

Call_text_kinds ==
  /\ Len(chain) < MaxText
  /\ \E call \in FontSizeCalls \cup TextColorCalls :
       Invoke(call.name, call.arg, Apply(call, style))

TextNext == Call_text_kinds

TextSpec == Init /\ [][TextNext]_vars

\* the constant of the last call of the chain that is one of `calls`, as the
\* property it writes holds it (unset when the chain has none)
LastOf(calls) ==
  LET made == {i \in 1..Len(chain) : chain[i] \in calls}
  IN  IF made = {} THEN {}
      ELSE {Constant(chain[CHOOSE i \in made : \A j \in made : j <= i])}

\* C26  The methods that share the prefix text_ write two properties and
\* never each other's: text_xs .. text_9xl write the font size only, and
\* text(color), text_black, text_white, text_transparent and
\* text_<hue>_<shade> the text color only.  After any chain the font size is
\* that of the last font-size call and the text color that of the last
\* text-color call, however the two kinds are interleaved.
TextKindsApart ==
  /\ style.font_size = LastOf(FontSizeCalls)
  /\ style.color = LastOf(TextColorCalls)
  /\ Len(chain) >= 1 /\ Last \in FontSizeCalls =>
       \A p \in Props \ {"font_size"} : style[p] = prev[p]
  /\ Len(chain) >= 1 /\ Last \in TextColorCalls =>
       \A p \in Props \ {"color"} : style[p] = prev[p]

\* text_lg, text_red_500, text_sm: the text is red at the 14 px of text_sm
TextKindsApart_Witness ==
  /\ chain = <<Call("text_lg", ""), Call("text_red_500", ""), Call("text_sm", "")>>
  /\ prev.font_size = {18}
  /\ style.font_size = {14}
  /\ style.color = {colors.red.C500}

\* ------------------------------------------------------------------------
\* Sibling families: the families that set sibling properties from the same
\* suffixes.

\* the suffixes of the fractional widths and heights
FractionSuffixes ==
  {"1_2", "1_3", "2_3", "1_4", "3_4", "1_5", "2_5", "3_5", "4_5", "1_6", "5_6", "1_12"}

\* every suffix a method of a sized family is named with
Suffixes ==
  Range(SuffixOrder) \cup Range(SizeSuffixOrder) \cup {"full", "auto"} \cup FractionSuffixes

\* what a family offers: the suffixes of its methods, each with the constant
\* the method passes
Offers(prefix, table) ==
  {<<s, table[prefix \o s]>> : s \in {t \in Suffixes : prefix \o t \in DOMAIN table}}

\* the part of an offer named with the numeric steps
StepsOf(offers) == {o \in offers : o[1] \in Range(SuffixOrder)}

\* the families of the sibling groups, by prefix
Siblings ==
  [w |-> Offers("w_", width_methods), h |-> Offers("h_", height_methods),
   size |-> Offers("size_", size_methods),
   min_w |-> Offers("min_w_", min_width_methods),
   max_w |-> Offers("max_w_", max_width_methods),
   px |-> Offers("px_", padding_x_methods), py |-> Offers("py_", padding_y_methods),
   pt |-> Offers("pt_", padding_top_methods), pb |-> Offers("pb_", padding_bottom_methods),
   pl |-> Offers("pl_", padding_left_methods), pr |-> Offers("pr_", padding_right_methods),
   mx |-> Offers("mx_", margin_x_methods), my |-> Offers("my_", margin_y_methods),
   mt |-> Offers("mt_", margin_top_methods), mb |-> Offers("mb_", margin_bottom_methods),
   ml |-> Offers("ml_", margin_left_methods), mr |-> Offers("mr_", margin_right_methods)]

\* the number of methods of every sibling family
SiblingCount ==
  [w |-> Cardinality(DOMAIN width_methods), h |-> Cardinality(DOMAIN height_methods),
   size |-> Cardinality(DOMAIN size_methods),
   min_w |-> Cardinality(DOMAIN min_width_methods),
   max_w |-> Cardinality(DOMAIN max_width_methods),
   px |-> Cardinality(DOMAIN padding_x_methods), py |-> Cardinality(DOMAIN padding_y_methods),
   pt |-> Cardinality(DOMAIN padding_top_methods),
   pb |-> Cardinality(DOMAIN padding_bottom_methods),
   pl |-> Cardinality(DOMAIN padding_left_methods),
   pr |-> Cardinality(DOMAIN padding_right_methods),
   mx |-> Cardinality(DOMAIN margin_x_methods), my |-> Cardinality(DOMAIN margin_y_methods),
   mt |-> Cardinality(DOMAIN margin_top_methods),
   mb |-> Cardinality(DOMAIN margin_bottom_methods),
   ml |-> Cardinality(DOMAIN margin_left_methods),
   mr |-> Cardinality(DOMAIN margin_right_methods)]

\* the steps of the per-side paddings, and those of the per-side margins
SideSteps == {"0", "1", "2", "3", "4", "5", "6", "8"}

\* the tables of the sibling families agree
SiblingTable ==
  /\ \A f \in DOMAIN Siblings : Cardinality(Siblings[f]) = SiblingCount[f]
  /\ Siblings.w = Siblings.h
  /\ StepsOf(Siblings.w) = Siblings.size
  /\ {o[1] : o \in Siblings.size} = Range(SuffixOrder)
  /\ Range(SizeSuffixOrder) \cup {"full", "auto"} \cup FractionSuffixes
       \subseteq {o[1] : o \in Siblings.w}
  /\ Siblings.px = Siblings.py
  /\ Siblings.mx = Siblings.my
  /\ StepsOf(Siblings.min_w) = StepsOf(Siblings.max_w)
  /\ StepsOf(Siblings.min_w) # {}
  /\ \A f \in {"pb", "pl", "pr"} : Siblings[f] = Siblings.pt
  /\ {o[1] : o \in Siblings.pt} = SideSteps
  /\ \A f \in {"mb", "ml", "mr"} : Siblings[f] = Siblings.mt
  /\ {o[1] : o \in Siblings.mt} = SideSteps \cup {"auto"}

\* the sibling groups: the prefixes of each, with the suffixes they share
SiblingGroups ==
  {<<{"w_", "h_", "size_"}, Range(SuffixOrder)>>,
   <<{"w_", "h_"}, Suffixes>>,
   <<{"px_", "py_"}, Suffixes>>,
   <<{"mx_", "my_"}, Suffixes>>,
   <<{"min_w_", "max_w_"}, Range(SuffixOrder)>>,
   <<{"pt_", "pb_", "pl_", "pr_"}, Suffixes>>,
   <<{"mt_", "mb_", "ml_", "mr_"}, Suffixes>>}

\* the pairs of methods of two sibling families named with the same suffix
Alike ==
  LET named == UNION {{<<a \o s, b \o s>> : a \in g[1], b \in g[1], s \in g[2]} :
                        g \in SiblingGroups}
  IN  {e \in named \cap ((DOMAIN Methods) \X (DOMAIN Methods)) : e[1] # e[2]}

\* C27  Sibling families offer the same names with the same values: w_, h_
\* and size_ have the same numeric steps with the same constants, and w_ and
\* h_ the same named sizes, full, auto and fractions; px_ and py_ are alike,
\* and mx_ and my_; min_w_ and max_w_ share their numeric steps; pt_, pb_,
\* pl_ and pr_ offer exactly 0, 1, 2, 3, 4, 5, 6, 8, and mt_, mb_, ml_ and mr_
\* exactly these and auto.  So after a method of one family and the method of
\* the same suffix of a sibling family, every property either wrote holds the
\* one value.
SiblingsAlike ==
  /\ SiblingTable
  /\ Len(chain) = 2 /\ <<chain[1].name, chain[2].name>> \in Alike =>
       \A p \in Targets[chain[1].name] \cup Targets[chain[2].name] :
         style[p] = {Methods[chain[1].name]}

\* py_6 after px_6: 24 px of padding on the four sides
SiblingsAlike_Witness ==
  /\ chain = <<Call("px_6", ""), Call("py_6", "")>>
  /\ <<"px_6", "py_6">> \in Alike
  /\ prev.padding_top = {}
  /\ \A p \in PaddingSides : style[p] = {Px(24)}

\* ------------------------------------------------------------------------
\* Two names for one value: the families whose methods pass pixel lengths,
\* and the pairs of methods of one family that pass the same length.

\* the tables of the families of pixel lengths
PixelTables ==
  <<width_methods, height_methods, size_methods, min_width_methods, max_width_methods,
    padding_methods, padding_x_methods, padding_y_methods, padding_top_methods,
    padding_bottom_methods, padding_left_methods, padding_right_methods,
    margin_methods, margin_x_methods, margin_y_methods, margin_top_methods,
    margin_bottom_methods, margin_left_methods, margin_right_methods,
    gap_methods, rounded_methods, border_methods>>

\* the pixel methods of a table
PixelMethods(table) == {n \in DOMAIN table : table[n].unit = "Px"}

\* the family of every pixel method
FamilyOf ==
  [n \in UNION {PixelMethods(PixelTables[i]) : i \in 1..Len(PixelTables)} |->
     CHOOSE i \in 1..Len(PixelTables) : n \in DOMAIN PixelTables[i]]

\* the pairs of names of one pixel length in a table
Aliases(table) ==
  {{e[1], e[2]} : e \in {f \in PixelMethods(table) \X PixelMethods(table) :
                            f[1] # f[2] /\ table[f[1]] = table[f[2]]}}

\* the aliases between the numeric scale and the named sizes of w_ and h_
WidthHeightAliases ==
  {{"w_80", "w_xs"}, {"w_96", "w_sm"}, {"h_80", "h_xs"}, {"h_96", "h_sm"}}

\* those of min_w_ and max_w_, which have a step 96 and a size sm, and no step 80
MinMaxAliases == {{"min_w_96", "min_w_sm"}, {"max_w_96", "max_w_sm"}}

\* two calls of distinct pixel methods of one family leave the style of the
\* first alone exactly when the two names are one of `aliases`
InjectiveBut(aliases) ==
  Len(chain) = 2 /\ chain[1].name \in DOMAIN FamilyOf /\ chain[2].name \in DOMAIN FamilyOf
    /\ FamilyOf[chain[1].name] = FamilyOf[chain[2].name] /\ chain[1].name # chain[2].name =>
      /\ {chain[1].name, chain[2].name} \in aliases => style = prev
      /\ {chain[1].name, chain[2].name} \notin aliases => style # prev

\* every alias of every table is one of those six
AliasTable ==
  /\ UNION {Aliases(PixelTables[i]) : i \in 1..Len(PixelTables)}
       = WidthHeightAliases \cup MinMaxAliases
  /\ \A pair \in WidthHeightAliases \cup MinMaxAliases :
       \A n \in pair : Methods[n] \in {Px(spacing.SIZE_XS), Px(spacing.SIZE_SM)}
  /\ spacing.SIZE_XS = 320 /\ spacing.SIZE_SM = 384

\* C28 as stated: the names of the pixel methods of a family stand for
\* distinct values but for w_80 / w_xs (320 px), w_96 / w_sm (384 px) and the
\* same two pairs of h_; no other two distinct pixel methods of a family set
\* the same value.
PixelNamesInjectiveButWidthHeight == InjectiveBut(WidthHeightAliases)

\* C28  The names of the pixel methods of a family stand for distinct
\* values but for the aliases between the numeric scale and the named sizes:
\* w_80 / w_xs (320 px), w_96 / w_sm (384 px), the same two pairs of h_, and
\* min_w_96 / min_w_sm and max_w_96 / max_w_sm (384 px).  The two methods of
\* an alias yield identical styles; no other two distinct pixel methods of a
\* family set the same value.
PixelNamesInjectiveButAliases ==
  /\ AliasTable
  /\ InjectiveBut(WidthHeightAliases \cup MinMaxAliases)

\* min_w_sm after min_w_96: the minimum width stays at 384 px
PixelNamesInjectiveButAliases_Witness ==
  /\ chain = <<Call("min_w_96", ""), Call("min_w_sm", "")>>
  /\ prev.min_width = {Px(384)}
  /\ style = prev

====
